---- MODULE Spec2Model ----
(***************************************************************************)
(* Model of the pushback robot's two cooperating controllers:              *)
(*   IndexerSystem      (src/src/indexer.cpp)   - the scoring controller   *)
(*   ColorSensorSystem  (src/unnamed/part_002)  - the color sort controller*)
(* Every member function is an operator from a world record w to the world *)
(* after the call, composed in the order of the statements of the source.  *)
(* A world is [ix, cs, hw, oc, log, ret, retc]: the two objects' fields,   *)
(* the hardware they command (motor velocity targets, the PTO coupling,    *)
(* the millisecond clock), the static variables of opcontrol with the      *)
(* controller inputs of the current pass, the commands issued by the       *)
(* current operation, and the values the last bool function and the last   *)
(* addToColorBuffer returned.                                              *)
(***************************************************************************)
EXTENDS Integers, Sequences, FiniteSets, TLC

VARIABLES ix, cs, hw, oc, log, call

vars == <<ix, cs, hw, oc, log, call>>

(***************************************************************************)
(* Program constants (config.h, indexer.h, color_sensor.h)                 *)
(***************************************************************************)
INPUT_MOTOR_SPEED == 550
INPUT_MOTOR_REVERSE_SPEED == -300
LEFT_INDEXER_FRONT_COLLECTION_SPEED == -550
LEFT_INDEXER_FRONT_MID_GOAL_SPEED == 300
LEFT_INDEXER_FRONT_TOP_GOAL_SPEED == -350
LEFT_INDEXER_BACK_COLLECTION_SPEED == 150
LEFT_INDEXER_BACK_MID_GOAL_SPEED == -550
LEFT_INDEXER_BACK_TOP_GOAL_SPEED == -350
RIGHT_INDEXER_COLLECTION_SPEED == -350
RIGHT_INDEXER_MID_GOAL_SPEED == 500
RIGHT_INDEXER_TOP_GOAL_SPEED == -550
RIGHT_INDEXER_TOP_GOAL_HELPER_SPEED == -350
TOP_INDEXER_FRONT_SPEED == 400
TOP_INDEXER_BACK_SPEED == -400
TOP_INDEXER_STORAGE_TO_FRONT_SPEED == 200
TOP_INDEXER_STORAGE_TO_BACK_SPEED == -200
STORAGE_TOP_SPEED == 60
MAX_STORAGE_BALLS == 3
LOW_GOAL_TIMEOUT == 3000
STORAGE_TIMEOUT == 8000
PUSH_TIMEOUT == 3000
SCORING_TIMEOUT == 5000

ScoringModes == {"NONE", "COLLECTION", "MID_GOAL", "LOW_GOAL", "TOP_GOAL"}
ExecutionDirections == {"NONE", "FRONT", "BACK", "STORAGE"}
Motors == {"input", "left", "right", "top"}
\* The eight inputs IndexerSystem::update reads: Y A B X select a mode,
\* R2/R1 execute front/back, LEFT toggles the storage source, RIGHT the flap.
Buttons == {"Y", "A", "B", "X", "R2", "R1", "LEFT", "RIGHT"}
\* The inputs the sort controls of opcontrol read: LEFT is the manual eject
\* button, RIGHT the sort toggle, L1 / L2 tune the ejection duration, LSTICK
\* is the left stick pushed left (x < -50), RSTICK the right stick pushed
\* right (x > 50).
SortControlInputs == {"LEFT", "RIGHT", "L1", "L2", "LSTICK", "RSTICK"}

(***************************************************************************)
(* Hardware and feedback primitives                                        *)
(***************************************************************************)
\* One entry of the command log: k is the kind of command, m its target or
\* text, v its number (0 when the command has none).
Entry(k, m, v) == [k |-> k, m |-> m, v |-> v]

Emit(w, k, m, v) == [w EXCEPT !.log = Append(@, Entry(k, m, v))]

\* pros::Motor::move_velocity
move_velocity(w, m, rpm) ==
    Emit([w EXCEPT !.hw.vel[m] = rpm], "vel", m, rpm)

\* pros::millis and pros::delay: a delay blocks the loop and the clock runs on
millis(w) == w.hw.now

delay(w, ms) == [w EXCEPT !.hw.now = @ + ms]

\* master.print(line, 0, text) on a connected controller
print(w, text) == Emit(w, "print", text, 0)

\* Unsigned 32-bit subtraction a - b of two clock readings.  TLC integers are
\* signed 32-bit, so a wrapped difference 2^32 - (b - a) is represented by
\* 2^31 - 1 - (b - a): like the true value it exceeds every duration the
\* program compares it with.
WrapTop == 2147483647

U32Sub(a, b) == IF a >= b THEN a - b ELSE WrapTop - (b - a)

\* PTO (pto.h): the pneumatic coupling of the two middle wheels
isDrivetrainMode(w) == w.hw.pto = "DRIVETRAIN"

isScorerMode(w) == w.hw.pto = "SCORER"

setScorerMode(w) ==
    Emit([w EXCEPT !.hw.pto = IF w.hw.pto_fault THEN @ ELSE "SCORER"],
         "pto", "SCORER", 0)

setDrivetrainMode(w) ==
    Emit([w EXCEPT !.hw.pto = IF w.hw.pto_fault THEN @ ELSE "DRIVETRAIN"],
         "pto", "DRIVETRAIN", 0)

(***************************************************************************)
(* IndexerSystem                                                           *)
(***************************************************************************)
setMode(w, mode) == [w EXCEPT !.ix.current_mode = mode]

setCollectionMode(w) == setMode(w, "COLLECTION")

setMidGoalMode(w) == setMode(w, "MID_GOAL")

setLowGoalMode(w) == setMode(w, "LOW_GOAL")

setTopGoalMode(w) == setMode(w, "TOP_GOAL")

runLeftIndexer(w, speed) == move_velocity(w, "left", speed)

runRightIndexer(w, speed) == move_velocity(w, "right", speed)

runTopIndexer(w, speed) == move_velocity(w, "top", speed)

stopLeftIndexer(w) == move_velocity(w, "left", 0)

stopRightIndexer(w) == move_velocity(w, "right", 0)

stopTopIndexer(w) == move_velocity(w, "top", 0)

openFrontFlap(w) ==
    Emit([w EXCEPT !.ix.front_flap_open = TRUE], "flap", "open", 0)

closeFrontFlap(w) ==
    Emit([w EXCEPT !.ix.front_flap_open = FALSE], "flap", "closed", 0)

toggleFrontFlap(w) ==
    IF w.ix.front_flap_open THEN closeFrontFlap(w) ELSE openFrontFlap(w)

setScoringActive(w, b) ==
    Emit([w EXCEPT !.ix.scoring_active = b], "active", IF b THEN "true" ELSE "false", 0)

startInput(w) ==
    IF ~w.ix.input_motor_active
    THEN [move_velocity(w, "input", INPUT_MOTOR_SPEED)
            EXCEPT !.ix.input_motor_active = TRUE]
    ELSE w

startInputReverse(w) ==
    IF ~w.ix.input_motor_active
    THEN [move_velocity(w, "input", INPUT_MOTOR_REVERSE_SPEED)
            EXCEPT !.ix.input_motor_active = TRUE]
    ELSE w

stopInput(w) ==
    IF w.ix.input_motor_active
    THEN [move_velocity(w, "input", 0) EXCEPT !.ix.input_motor_active = FALSE]
    ELSE w

\* stopAll that leaves the intake as it is
stopAll_withoutInput(w) ==
    LET w2 == stopTopIndexer(stopRightIndexer(stopLeftIndexer(w)))
        w3 == closeFrontFlap(w2)
        w4 == setScoringActive(w3, FALSE)
    IN  [w4 EXCEPT !.ix.last_direction = "NONE"]

\* stopAll that forgets the top indexer
stopAll_withoutTop(w) ==
    LET w1 == move_velocity(move_velocity(w, "input", 0), "input", 0)
        w2 == stopRightIndexer(stopLeftIndexer(w1))
        w3 == closeFrontFlap(w2)
        w4 == setScoringActive(w3, FALSE)
    IN  [w4 EXCEPT !.ix.input_motor_active = FALSE,
                   !.ix.last_direction = "NONE"]

stopAll(w) ==
    LET w1 == move_velocity(move_velocity(w, "input", 0), "input", 0)
        w2 == stopTopIndexer(stopRightIndexer(stopLeftIndexer(w1)))
        w3 == closeFrontFlap(w2)
        w4 == setScoringActive(w3, FALSE)
    IN  [w4 EXCEPT !.ix.input_motor_active = FALSE,
                   !.ix.last_direction = "NONE"]

isStorageFull(w) == w.ix.storage_ball_count >= MAX_STORAGE_BALLS

\* addBallToStorage without the check of the limit
addBallToStorage_unchecked(w) ==
    [print([w EXCEPT !.ix.storage_ball_count = @ + 1], "Storage")
        EXCEPT !.ret = TRUE]

addBallToStorage(w) ==
    IF isStorageFull(w)
    THEN [w EXCEPT !.ret = FALSE]
    ELSE [print([w EXCEPT !.ix.storage_ball_count = @ + 1], "Storage")
            EXCEPT !.ret = TRUE]

removeBallFromStorage(w) ==
    IF w.ix.storage_ball_count <= 0
    THEN [w EXCEPT !.ret = FALSE]
    ELSE [print([w EXCEPT !.ix.storage_ball_count = @ - 1], "Storage")
            EXCEPT !.ret = TRUE]

resetStorageBallCount(w) ==
    print([w EXCEPT !.ix.storage_ball_count = 0], "Storage")

toggleStorageMode(w) ==
    [w EXCEPT !.ix.score_from_top_storage = ~@]

verifyPTOForStorage(w) ==
    IF isDrivetrainMode(w)
    THEN LET w1 == delay(setScorerMode(w), 200)
         IN  [w1 EXCEPT !.ret = ~isDrivetrainMode(w1)]
    ELSE [w EXCEPT !.ret = TRUE]

\* The PTO block of executeFront/executeBack: every mode but LOW_GOAL needs
\* the middle wheels on the scorer
ensureScorerForExecute(w) ==
    IF w.ix.current_mode # "LOW_GOAL" /\ isDrivetrainMode(w)
    THEN delay(setScorerMode(w), 50)
    ELSE w

\* flapForFront that also opens the flap for MID_GOAL
flapForFront_opensForMidGoal(w) ==
    IF w.ix.current_mode \in {"TOP_GOAL", "MID_GOAL"} THEN delay(openFrontFlap(w), 50)
    ELSE IF w.ix.current_mode = "COLLECTION" THEN delay(closeFrontFlap(w), 50)
    ELSE w

\* The flap block of executeFront
flapForFront(w) ==
    IF w.ix.current_mode = "TOP_GOAL" THEN delay(openFrontFlap(w), 50)
    ELSE IF w.ix.current_mode = "COLLECTION" THEN delay(closeFrontFlap(w), 50)
    ELSE w

\* dispatchFront whose COLLECTION case runs the top indexer backwards
dispatchFront_topBackwards(w) ==
    startInput(
      runTopIndexer(
        runRightIndexer(
          runLeftIndexer(w, LEFT_INDEXER_FRONT_COLLECTION_SPEED),
          RIGHT_INDEXER_COLLECTION_SPEED),
        TOP_INDEXER_BACK_SPEED))

\* frontTopGoal that takes the ball from storage when the storage source is on
frontTopGoal_fromStorage(w) ==
    startInput(
      IF w.ix.score_from_top_storage
      THEN runRightIndexer(
             runTopIndexer(
               runLeftIndexer(removeBallFromStorage(w),
                              LEFT_INDEXER_FRONT_TOP_GOAL_SPEED),
               TOP_INDEXER_STORAGE_TO_FRONT_SPEED),
             RIGHT_INDEXER_TOP_GOAL_HELPER_SPEED)
      ELSE runRightIndexer(
             runTopIndexer(
               runLeftIndexer(w, LEFT_INDEXER_FRONT_TOP_GOAL_SPEED),
               TOP_INDEXER_FRONT_SPEED),
             RIGHT_INDEXER_TOP_GOAL_HELPER_SPEED))

\* case TOP_GOAL of executeFront: the storage source is not looked at
frontTopGoal(w) ==
    startInput(
      runRightIndexer(
        runTopIndexer(
          runLeftIndexer(w, LEFT_INDEXER_FRONT_TOP_GOAL_SPEED),
          TOP_INDEXER_FRONT_SPEED),
        RIGHT_INDEXER_TOP_GOAL_HELPER_SPEED))

\* switch (current_mode) of executeFront
dispatchFront(w) ==
    LET st == w.ix.score_from_top_storage
    IN  CASE w.ix.current_mode = "COLLECTION" ->
               startInput(
                 IF st
                 THEN runRightIndexer(
                        runTopIndexer(
                          runLeftIndexer(removeBallFromStorage(w),
                                         LEFT_INDEXER_FRONT_COLLECTION_SPEED),
                          TOP_INDEXER_STORAGE_TO_FRONT_SPEED),
                        RIGHT_INDEXER_COLLECTION_SPEED)
                 ELSE runTopIndexer(
                        runRightIndexer(
                          runLeftIndexer(w, LEFT_INDEXER_FRONT_COLLECTION_SPEED),
                          RIGHT_INDEXER_COLLECTION_SPEED),
                        TOP_INDEXER_FRONT_SPEED))
          [] w.ix.current_mode = "MID_GOAL" ->
               startInput(
                 IF st
                 THEN runTopIndexer(
                        runLeftIndexer(removeBallFromStorage(w),
                                       LEFT_INDEXER_FRONT_MID_GOAL_SPEED),
                        TOP_INDEXER_BACK_SPEED)
                 ELSE runLeftIndexer(w, LEFT_INDEXER_FRONT_MID_GOAL_SPEED))
          [] w.ix.current_mode = "LOW_GOAL" ->
               IF st
               THEN startInputReverse(
                      runTopIndexer(
                        runLeftIndexer(removeBallFromStorage(w),
                                       LEFT_INDEXER_FRONT_MID_GOAL_SPEED),
                        TOP_INDEXER_BACK_SPEED))
               ELSE startInputReverse(w)
          [] w.ix.current_mode = "TOP_GOAL" -> frontTopGoal(w)
          [] OTHER -> w

\* startSequence that leaves the active flag as it is
startSequence_withoutActive(w, text) ==
    print([w EXCEPT !.ix.scoring_start_time = millis(w)], text)

\* The tail of executeFront/executeBack: start the sequence timer
startSequence(w, text) ==
    LET w1 == setScoringActive(w, TRUE)
    IN  print([w1 EXCEPT !.ix.scoring_start_time = millis(w1)], text)

\* executeFront that starts the new sequence over the running one
executeFront_withoutStop(w) ==
    IF w.ix.current_mode = "NONE"
    THEN print(w, "Need Mode")
    ELSE LET w2 == [w EXCEPT !.ix.last_direction = "FRONT"]
             w3 == ensureScorerForExecute(flapForFront(w2))
         IN  startSequence(dispatchFront(w3), "FRONT")

executeFront(w) ==
    IF w.ix.current_mode = "NONE"
    THEN print(w, "Need Mode")
    ELSE LET w1 == IF w.ix.scoring_active THEN delay(stopAll(w), 50) ELSE w
             w2 == [w1 EXCEPT !.ix.last_direction = "FRONT"]
             w3 == ensureScorerForExecute(flapForFront(w2))
         IN  startSequence(dispatchFront(w3), "FRONT")

\* switch (current_mode) of executeBack
dispatchBack(w) ==
    LET st == w.ix.score_from_top_storage
    IN  CASE w.ix.current_mode = "COLLECTION" ->
               startInput(
                 IF st
                 THEN runRightIndexer(
                        runTopIndexer(
                          runLeftIndexer(removeBallFromStorage(w),
                                         -LEFT_INDEXER_BACK_COLLECTION_SPEED),
                          TOP_INDEXER_STORAGE_TO_BACK_SPEED),
                        RIGHT_INDEXER_COLLECTION_SPEED)
                 ELSE runLeftIndexer(
                        runRightIndexer(w, RIGHT_INDEXER_COLLECTION_SPEED),
                        LEFT_INDEXER_BACK_COLLECTION_SPEED))
          [] w.ix.current_mode = "MID_GOAL" ->
               startInput(
                 IF st
                 THEN runRightIndexer(
                        runTopIndexer(
                          runLeftIndexer(removeBallFromStorage(w),
                                         LEFT_INDEXER_BACK_MID_GOAL_SPEED),
                          TOP_INDEXER_STORAGE_TO_BACK_SPEED),
                        RIGHT_INDEXER_MID_GOAL_SPEED)
                 ELSE runLeftIndexer(
                        runRightIndexer(w, RIGHT_INDEXER_MID_GOAL_SPEED),
                        LEFT_INDEXER_BACK_MID_GOAL_SPEED))
          [] w.ix.current_mode = "LOW_GOAL" ->
               IF st
               THEN startInputReverse(
                      runTopIndexer(
                        runLeftIndexer(removeBallFromStorage(w),
                                       -LEFT_INDEXER_BACK_COLLECTION_SPEED),
                        TOP_INDEXER_STORAGE_TO_BACK_SPEED))
               ELSE startInputReverse(w)
          [] w.ix.current_mode = "TOP_GOAL" ->
               startInput(
                 IF st
                 THEN runRightIndexer(
                        runTopIndexer(
                          runLeftIndexer(removeBallFromStorage(w),
                                         LEFT_INDEXER_BACK_TOP_GOAL_SPEED),
                          TOP_INDEXER_STORAGE_TO_BACK_SPEED),
                        RIGHT_INDEXER_TOP_GOAL_SPEED)
                 ELSE runLeftIndexer(
                        runTopIndexer(
                          runRightIndexer(w, RIGHT_INDEXER_TOP_GOAL_HELPER_SPEED),
                          TOP_INDEXER_BACK_SPEED),
                        LEFT_INDEXER_BACK_TOP_GOAL_SPEED))
          [] OTHER -> w

\* executeBack that does not look at the mode first
executeBack_withoutModeCheck(w) ==
    LET w1 == IF w.ix.scoring_active THEN delay(stopAll(w), 50) ELSE w
        w2 == [w1 EXCEPT !.ix.last_direction = "BACK"]
        w3 == ensureScorerForExecute(w2)
    IN  startSequence(dispatchBack(w3), "BACK")

executeBack(w) ==
    IF w.ix.current_mode = "NONE"
    THEN print(w, "Need Mode")
    ELSE LET w1 == IF w.ix.scoring_active THEN delay(stopAll(w), 50) ELSE w
             w2 == [w1 EXCEPT !.ix.last_direction = "BACK"]
             w3 == ensureScorerForExecute(w2)
         IN  startSequence(dispatchBack(w3), "BACK")

\* startIntakeAndStorage that stops the running sequence before it looks at
\* the storage count
startIntakeAndStorage_stopsFirst(w) ==
    LET w1 == IF w.ix.scoring_active THEN delay(stopAll(w), 100) ELSE w
    IN  IF isStorageFull(w1)
        THEN print(w1, "STORAGE FULL!")
        ELSE LET w2 == verifyPTOForStorage(w1)
             IN  IF ~w2.ret
                 THEN print(w2, "PTO ERROR")
                 ELSE LET w3 == closeFrontFlap(startInput(w2))
                          w4 == runTopIndexer(w3, STORAGE_TOP_SPEED)
                          w5 == runLeftIndexer(w4, LEFT_INDEXER_FRONT_COLLECTION_SPEED \div 2)
                          w6 == runRightIndexer(w5, RIGHT_INDEXER_TOP_GOAL_HELPER_SPEED)
                          w7 == setScoringActive(w6, TRUE)
                      IN  print([w7 EXCEPT !.ix.scoring_start_time = millis(w7),
                                           !.ix.last_direction = "STORAGE"],
                                "STORING")

startIntakeAndStorage(w) ==
    IF isStorageFull(w)
    THEN print(w, "STORAGE FULL!")
    ELSE LET w1 == IF w.ix.scoring_active THEN delay(stopAll(w), 100) ELSE w
             w2 == verifyPTOForStorage(w1)
         IN  IF ~w2.ret
             THEN print(w2, "PTO ERROR")
             ELSE LET w3 == closeFrontFlap(startInput(w2))
                      w4 == runTopIndexer(w3, STORAGE_TOP_SPEED)
                      w5 == runLeftIndexer(w4, LEFT_INDEXER_FRONT_COLLECTION_SPEED \div 2)
                      w6 == runRightIndexer(w5, RIGHT_INDEXER_TOP_GOAL_HELPER_SPEED)
                      w7 == setScoringActive(w6, TRUE)
                  IN  print([w7 EXCEPT !.ix.scoring_start_time = millis(w7),
                                       !.ix.last_direction = "STORAGE"],
                            "STORING")

\* A rising edge of button b: pressed now, not pressed at the previous update
Edge(w, btn, b) == b \in btn /\ b \notin w.ix.last_buttons

\* update: force_display_update = true, at the end of the handler of an edge
forceDisplay(w) == [w EXCEPT !.ix.force_display_update = TRUE]

\* modeSelector without the toggle: every edge restarts the storage sequence
modeSelector_alwaysRestart(w, btn, b, mode) ==
    IF Edge(w, btn, b)
    THEN forceDisplay(print(startIntakeAndStorage(setMode(w, mode)), "MODE STORAGE"))
    ELSE w

\* update: one mode selector (Y, A, B or X) with its toggle
modeSelector(w, btn, b, mode) ==
    IF Edge(w, btn, b)
    THEN forceDisplay(
           IF w.ix.scoring_active /\ w.ix.current_mode = mode
              /\ w.ix.last_direction = "STORAGE"
           THEN print(stopAll(w), "STOPPED")
           ELSE print(startIntakeAndStorage(setMode(w, mode)), "MODE STORAGE"))
    ELSE w

\* update: R2 (dir = "FRONT") or R1 (dir = "BACK") with COLLECTION selected:
\* PTO down and the intake alone pushes
pushMode(w, dir) ==
    LET w1 == IF w.ix.scoring_active THEN delay(stopAll(w), 100) ELSE w
        w2 == IF isScorerMode(w1) THEN delay(setDrivetrainMode(w1), 300) ELSE w1
        w3 == IF dir = "FRONT" THEN startInput(w2) ELSE startInputReverse(w2)
        w4 == setScoringActive(w3, TRUE)
    IN  print([w4 EXCEPT !.ix.scoring_start_time = millis(w4),
                         !.ix.last_direction = dir],
              IF dir = "FRONT" THEN "PUSH FORWARD" ELSE "PUSH BACKWARD")

\* executeButton without the toggle: every edge runs the execute again
executeButton_alwaysExecute(w, btn, b, dir) ==
    IF ~Edge(w, btn, b) THEN w
    ELSE forceDisplay(
         IF w.ix.current_mode = "NONE" THEN print(w, "Press Y/A/B/X first")
         ELSE IF w.ix.current_mode = "COLLECTION" THEN pushMode(w, dir)
         ELSE LET w1 == IF w.ix.scoring_active THEN delay(stopAll(w), 100) ELSE w
                  w2 == [w1 EXCEPT !.ix.last_direction = dir]
              IN  IF dir = "FRONT" THEN executeFront(w2) ELSE executeBack(w2))

\* update: one execute button (R2 front, R1 back)
executeButton(w, btn, b, dir) ==
    IF ~Edge(w, btn, b) THEN w
    ELSE forceDisplay(
         IF w.ix.current_mode = "NONE" THEN print(w, "Press Y/A/B/X first")
         ELSE IF w.ix.current_mode = "COLLECTION" THEN pushMode(w, dir)
         ELSE IF w.ix.scoring_active /\ w.ix.last_direction = dir
              THEN startIntakeAndStorage(delay(stopAll(w), 100))
              ELSE LET w1 == IF w.ix.scoring_active THEN delay(stopAll(w), 100) ELSE w
                       w2 == [w1 EXCEPT !.ix.last_direction = dir]
                   IN  IF dir = "FRONT" THEN executeFront(w2) ELSE executeBack(w2))

\* update: LEFT alone toggles the storage source; LEFT held with an R1 / R2
\* edge adds / removes one ball of the storage count; RIGHT toggles the flap
storageButtons(w, btn) ==
    LET w1 == IF Edge(w, btn, "LEFT") THEN forceDisplay(toggleStorageMode(w)) ELSE w
        w2 == IF "LEFT" \in btn /\ Edge(w, btn, "R1")
              THEN LET a == addBallToStorage(w1)
                   IN  forceDisplay(
                         print(a, IF a.ret THEN "Ball Added" ELSE "Storage Full!"))
              ELSE w1
        w3 == IF "LEFT" \in btn /\ Edge(w, btn, "R2")
              THEN LET r == removeBallFromStorage(w2)
                   IN  forceDisplay(
                         print(r, IF r.ret THEN "Ball Removed" ELSE "Storage Empty!"))
              ELSE w2
    IN  IF Edge(w, btn, "RIGHT") THEN forceDisplay(toggleFrontFlap(w3)) ELSE w3

\* timeoutDuration with the one bucket of the scoring operations
timeoutDuration_flat(w) == SCORING_TIMEOUT

\* update: the timeout of the running sequence
timeoutDuration(w) ==
    IF w.ix.last_direction = "STORAGE" THEN STORAGE_TIMEOUT
    ELSE IF w.ix.current_mode = "COLLECTION"
            /\ w.ix.last_direction \in {"FRONT", "BACK"} THEN PUSH_TIMEOUT
    ELSE SCORING_TIMEOUT

\* timeouts without the LOW_GOAL check: only the bucket of the direction
timeouts_bucketOnly(w) ==
    IF ~w.ix.scoring_active THEN w
    ELSE IF U32Sub(millis(w), w.ix.scoring_start_time) > timeoutDuration(w)
    THEN print(stopAll(w), "TIMEOUT STOP")
    ELSE w

timeouts(w) ==
    IF ~w.ix.scoring_active THEN w
    ELSE LET elapsed == U32Sub(millis(w), w.ix.scoring_start_time)
             w1 == IF w.ix.current_mode = "LOW_GOAL" /\ elapsed > LOW_GOAL_TIMEOUT
                   THEN print(stopAll(Emit(w, "low_timeout", w.ix.last_direction, 0)),
                              "LOW TIMEOUT")
                   ELSE w
         IN  IF elapsed > timeoutDuration(w1)
             THEN print(stopAll(w1), "TIMEOUT STOP")
             ELSE w1

\* The tenths of a second that "%.1f" prints for a runtime of 100 k + 50 ms
\* are k + 1 for the k of this set and k for the others: the runtime is the
\* float (current_time - scoring_start_time) / 1000.0f, which lies above or
\* below the decimal tie, or on it (k = 2, 7, 12, ...: ties go to the even
\* digit).  The set covers the runtimes below 20 s.
HalfRoundsUp ==
    {0, 1, 5, 7, 8, 13, 14, 17, 18, 19, 21, 24, 26, 27, 29, 31, 34, 36, 37, 39,
     40, 41, 45, 46, 47, 50, 51, 55, 56, 57, 60, 61, 65, 66, 67, 70, 71, 75, 76,
     77, 80, 83, 85, 87, 88, 90, 93, 95, 97, 98, 100, 103, 105, 107, 108, 110,
     113, 115, 117, 118, 120, 123, 125, 127, 128, 130, 133, 135, 137, 138, 140,
     143, 145, 147, 148, 150, 153, 155, 157, 158, 163, 164, 167, 168, 169, 173,
     174, 177, 178, 179, 183, 184, 187, 188, 189, 193, 194, 197, 198, 199}

\* snprintf("%.1f") of a runtime of ms milliseconds, in tenths of a second
runtimeTenths(ms) ==
    IF ms % 100 = 50
    THEN (ms \div 100) + (IF (ms \div 100) \in HalfRoundsUp THEN 1 ELSE 0)
    ELSE (ms + 50) \div 100

\* updateControllerDisplay: the three lines as snprintf leaves them in their
\* 17-byte buffers.  The symbols of this source take 7 or 8 bytes each, so of
\* line 0 only the COLLECTION and the MID_GOAL mark fit, and of line 1 only
\* "R2" with its mark; line 2 keeps the mode name and READY or the runtime
\* (-1 stands for READY).
displayLines(w, current_time) ==
    << <<IF w.ix.current_mode \in {"COLLECTION", "MID_GOAL"}
         THEN w.ix.current_mode ELSE "OTHER">>,
       <<w.ix.scoring_active /\ w.ix.last_direction = "FRONT">>,
       <<w.ix.current_mode,
         IF w.ix.scoring_active
         THEN runtimeTenths(U32Sub(current_time, w.ix.scoring_start_time))
         ELSE -1>> >>

\* updateControllerDisplay(controller, force_display_update): every 200 ms,
\* or at once when forced, the lines that changed (all three when forced)
\* are printed
updateControllerDisplay(w) ==
    LET current_time == millis(w)
        force_update == w.ix.force_display_update
        lines == displayLines(w, current_time)
        printLine(v, i) ==
            IF lines[i] # v.ix.last_displayed_lines[i] \/ force_update
            THEN [print(v, <<"DISPLAY line 0", "DISPLAY line 1", "DISPLAY line 2">>[i])
                    EXCEPT !.ix.last_displayed_lines[i] = lines[i]]
            ELSE v
    IN  IF ~force_update /\ U32Sub(current_time, w.ix.last_display_update) < 200
        THEN w
        ELSE [printLine(printLine(printLine(w, 1), 2), 3)
                EXCEPT !.ix.last_display_update = current_time,
                       !.ix.force_display_update = FALSE]

\* IndexerSystem::update with the buttons btn held down at this tick
update(w, btn) ==
    LET w0 == IF (w.ix.update_counter + 1) % 100 = 0
              THEN print([w EXCEPT !.ix.update_counter = @ + 1], "Updates")
              ELSE [w EXCEPT !.ix.update_counter = @ + 1]
        w1 == modeSelector(w0, btn, "Y", "COLLECTION")
        w2 == modeSelector(w1, btn, "A", "MID_GOAL")
        w3 == modeSelector(w2, btn, "B", "LOW_GOAL")
        w4 == modeSelector(w3, btn, "X", "TOP_GOAL")
        w5 == executeButton(w4, btn, "R2", "FRONT")
        w6 == executeButton(w5, btn, "R1", "BACK")
        w7 == timeouts(storageButtons(w6, btn))
    IN  updateControllerDisplay([w7 EXCEPT !.ix.last_buttons = btn \cap Buttons])

(***************************************************************************)
(* ColorSensorSystem                                                       *)
(***************************************************************************)
COLOR_CONFIRMATION_COUNT == 3
MAX_PROXIMITY_THRESHOLD == 100
MIN_SATURATION == 50
MIN_BRIGHTNESS == 30
RED_HUE_MIN == 0
RED_HUE_MAX == 30
RED_HUE_HIGH_MIN == 330
RED_HUE_HIGH_MAX == 360
BLUE_HUE_MIN == 200
BLUE_HUE_MAX == 250
BALL_EJECT_DELAY_MS == 200
BALL_EJECT_DURATION_MS == 500
BALL_EJECT_MIN_DURATION == 300
BALL_EJECT_MAX_DURATION == 800
BALL_PASSAGE_TIMEOUT_MS == 2000
BALL_DIRECTION_TIMEOUT_MS == 1000

BallColors == {"UNKNOWN", "NO_BALL", "RED", "BLUE"}
SortingModes == {"COLLECT_RED", "COLLECT_BLUE", "COLLECT_ALL", "EJECT_ALL"}
BallDirections == {"UNKNOWN", "FORWARD", "REVERSE", "STATIONARY"}

\* static_cast<int> of the two enums of indexer.h, as restoreIndexerState
\* reads them back
ScoringModeInt(mode) ==
    CASE mode = "COLLECTION" -> 0
      [] mode = "MID_GOAL" -> 1
      [] mode = "LOW_GOAL" -> 2
      [] mode = "TOP_GOAL" -> 3
      [] OTHER -> 4

ExecutionDirectionInt(dir) ==
    CASE dir = "NONE" -> 0
      [] dir = "FRONT" -> 1
      [] dir = "BACK" -> 2
      [] OTHER -> 3

\* A reading r of one optical sensor: [prox, hue, sat, bright]
isBallPresent(r) == r.prox <= MAX_PROXIMITY_THRESHOLD

readColorFromSensor(r) ==
    IF r.prox > MAX_PROXIMITY_THRESHOLD THEN "NO_BALL"
    ELSE IF r.sat < MIN_SATURATION \/ r.bright < MIN_BRIGHTNESS THEN "UNKNOWN"
    ELSE IF (r.hue >= RED_HUE_MIN /\ r.hue <= RED_HUE_MAX)
            \/ (r.hue >= RED_HUE_HIGH_MIN /\ r.hue <= RED_HUE_HIGH_MAX) THEN "RED"
    ELSE IF r.hue >= BLUE_HUE_MIN /\ r.hue <= BLUE_HUE_MAX THEN "BLUE"
    ELSE "UNKNOWN"

\* The ring buffer of one channel after color is written at its index;
\* buffer[i + 1] is the source's buffer[i]
bufferAfter(buffer, index, color) == [buffer EXCEPT ![index + 1] = color]

\* allSame by majority: two entries of the three agree
allSame_majority(buffer, color) ==
    Cardinality({i \in 1..COLOR_CONFIRMATION_COUNT : buffer[i] = color}) >= 2

allSame(buffer, color) ==
    \A i \in 1..COLOR_CONFIRMATION_COUNT : buffer[i] = color

\* addToColorBuffer: the confirmed color is left in w.retc
addToColorBuffer(w, sensor_num, color) ==
    LET buf == IF sensor_num = 1 THEN w.cs.sensor1_color_buffer
               ELSE w.cs.sensor2_color_buffer
        idx == IF sensor_num = 1 THEN w.cs.sensor1_buffer_index
               ELSE w.cs.sensor2_buffer_index
        nbuf == bufferAfter(buf, idx, color)
        nidx == (idx + 1) % COLOR_CONFIRMATION_COUNT
        w1 == IF sensor_num = 1
              THEN [w EXCEPT !.cs.sensor1_color_buffer = nbuf,
                             !.cs.sensor1_buffer_index = nidx]
              ELSE [w EXCEPT !.cs.sensor2_color_buffer = nbuf,
                             !.cs.sensor2_buffer_index = nidx]
    IN  [w1 EXCEPT !.retc = IF color # "UNKNOWN" /\ color # "NO_BALL"
                               /\ allSame(nbuf, color)
                            THEN color ELSE "UNKNOWN"]

\* abs((int32_t)(t2 - t1)) of two clock readings
AbsDiff(a, b) == IF a >= b THEN a - b ELSE b - a

determineBallDirection(w) ==
    LET t1 == w.cs.sensor1_trigger_time
        t2 == w.cs.sensor2_trigger_time
    IN  IF t1 > 0 /\ t2 > 0 /\ AbsDiff(t2, t1) < BALL_DIRECTION_TIMEOUT_MS
        THEN IF t1 < t2 THEN "FORWARD" ELSE "REVERSE"
        ELSE IF w.cs.sensor1_triggered # w.cs.sensor2_triggered THEN "STATIONARY"
        ELSE "UNKNOWN"

\* shouldEjectBall with the two collect modes swapped
shouldEjectBall_swapped(w, color) ==
    CASE w.cs.current_mode = "COLLECT_RED" -> color = "RED"
      [] w.cs.current_mode = "COLLECT_BLUE" -> color = "BLUE"
      [] w.cs.current_mode = "COLLECT_ALL" -> FALSE
      [] w.cs.current_mode = "EJECT_ALL" -> TRUE
      [] OTHER -> FALSE

\* shouldEjectBall whose COLLECT_ALL mode ejects the blue balls
shouldEjectBall_collectAllEjects(w, color) ==
    CASE w.cs.current_mode = "COLLECT_RED" -> color = "BLUE"
      [] w.cs.current_mode = "COLLECT_BLUE" -> color = "RED"
      [] w.cs.current_mode = "COLLECT_ALL" -> color = "BLUE"
      [] w.cs.current_mode = "EJECT_ALL" -> TRUE
      [] OTHER -> FALSE

shouldEjectBall(w, color) ==
    CASE w.cs.current_mode = "COLLECT_RED" -> color = "BLUE"
      [] w.cs.current_mode = "COLLECT_BLUE" -> color = "RED"
      [] w.cs.current_mode = "COLLECT_ALL" -> FALSE
      [] w.cs.current_mode = "EJECT_ALL" -> TRUE
      [] OTHER -> FALSE

saveIndexerState(w) ==
    IF ~w.cs.has_indexer
    THEN [w EXCEPT !.cs.saved_indexer_state.valid = FALSE]
    ELSE Emit([w EXCEPT !.cs.saved_indexer_state =
                 [was_scoring_active |-> w.ix.scoring_active,
                  was_input_active |-> w.ix.input_motor_active,
                  saved_scoring_mode |-> ScoringModeInt(w.ix.current_mode),
                  saved_execution_direction |-> ExecutionDirectionInt(w.ix.last_direction),
                  valid |-> TRUE]],
              "call", "saveIndexerState", 0)

\* startEjection that does not look at the scoring controller's active flag
startEjection_unguarded(w) ==
    IF ~w.cs.ejection_active /\ w.cs.has_indexer
    THEN LET w0 == Emit(w, "printf", "BALL EJECTION STARTING", 0)
             w1 == delay(stopAll(saveIndexerState(w0)), 100)
             w2 == [w1 EXCEPT !.cs.ejection_active = TRUE,
                              !.cs.ejection_start_time = millis(w1),
                              !.cs.balls_ejected = @ + 1]
         IN  executeBack(setMidGoalMode(w2))
    ELSE w

startEjection(w) ==
    IF ~w.cs.ejection_active /\ w.cs.has_indexer
    THEN IF w.ix.scoring_active
         THEN Emit(w, "printf", "Ejection delayed", 0)
         ELSE LET w0 == Emit(w, "printf", "BALL EJECTION STARTING", 0)
                  w1 == delay(stopAll(saveIndexerState(w0)), 100)
                  w2 == [w1 EXCEPT !.cs.ejection_active = TRUE,
                                   !.cs.ejection_start_time = millis(w1),
                                   !.cs.balls_ejected = @ + 1]
              IN  executeBack(setMidGoalMode(w2))
    ELSE w

\* resetDetectionState that leaves the confirmation buffers as they are
resetDetectionState_keepsBuffers(w) ==
    [w EXCEPT !.cs.sensor1_triggered = FALSE,
              !.cs.sensor2_triggered = FALSE,
              !.cs.sensor1_trigger_time = 0,
              !.cs.sensor2_trigger_time = 0,
              !.cs.last_detected_color = "UNKNOWN",
              !.cs.last_direction = "UNKNOWN"]

resetDetectionState(w) ==
    [w EXCEPT !.cs.sensor1_triggered = FALSE,
              !.cs.sensor2_triggered = FALSE,
              !.cs.sensor1_trigger_time = 0,
              !.cs.sensor2_trigger_time = 0,
              !.cs.last_detected_color = "UNKNOWN",
              !.cs.last_direction = "UNKNOWN",
              !.cs.sensor1_color_buffer = [i \in 1..COLOR_CONFIRMATION_COUNT |-> "NO_BALL"],
              !.cs.sensor2_color_buffer = [i \in 1..COLOR_CONFIRMATION_COUNT |-> "NO_BALL"],
              !.cs.sensor1_buffer_index = 0,
              !.cs.sensor2_buffer_index = 0]

\* switch (saved_execution_direction) of restoreIndexerState
restoreDirection(w) ==
    LET d == w.cs.saved_indexer_state.saved_execution_direction
    IN  CASE d = 1 -> executeFront(w)
          [] d = 2 -> executeBack(w)
          [] d = 3 -> startIntakeAndStorage(w)
          [] OTHER -> IF w.cs.saved_indexer_state.was_input_active
                      THEN startIntakeAndStorage(w)
                      ELSE w

\* restoreIndexerState that keeps the snapshot when there is nothing to resume
restoreIndexerState_keepsSnapshot(w) ==
    LET w0 == Emit(w, "call", "restoreIndexerState", 0)
        m == w.cs.saved_indexer_state.saved_scoring_mode
    IN  IF ~w.cs.has_indexer \/ ~w.cs.saved_indexer_state.valid THEN w0
        ELSE IF ~w.cs.saved_indexer_state.was_scoring_active THEN w0
        ELSE LET w1 == delay(w0, 50)
                 w2 == CASE m = 0 -> setCollectionMode(w1)
                         [] m = 1 -> setMidGoalMode(w1)
                         [] m = 2 -> setLowGoalMode(w1)
                         [] OTHER -> setTopGoalMode(w1)
                 w3 == IF m \in 0..3 THEN restoreDirection(w2) ELSE w1
             IN  [w3 EXCEPT !.cs.saved_indexer_state.valid = FALSE]

restoreIndexerState(w) ==
    LET w0 == Emit(w, "call", "restoreIndexerState", 0)
        m == w.cs.saved_indexer_state.saved_scoring_mode
        invalidated == [w0 EXCEPT !.cs.saved_indexer_state.valid = FALSE]
    IN  IF ~w.cs.has_indexer \/ ~w.cs.saved_indexer_state.valid THEN w0
        ELSE IF ~w.cs.saved_indexer_state.was_scoring_active THEN invalidated
        ELSE LET w1 == delay(w0, 50)
                 w2 == CASE m = 0 -> setCollectionMode(w1)
                         [] m = 1 -> setMidGoalMode(w1)
                         [] m = 2 -> setLowGoalMode(w1)
                         [] OTHER -> setTopGoalMode(w1)
                 w3 == IF m \in 0..3 THEN restoreDirection(w2) ELSE w1
             IN  [w3 EXCEPT !.cs.saved_indexer_state.valid = FALSE]

\* stopEjection that leaves the scoring controller running
stopEjection_withoutStopAll(w) ==
    IF w.cs.ejection_active /\ w.cs.has_indexer
    THEN restoreIndexerState(
           resetDetectionState(
             Emit([w EXCEPT !.cs.ejection_active = FALSE],
                  "printf", "Ball ejection stopped", 0)))
    ELSE w

\* stopEjection that never restores the snapshot
stopEjection_withoutRestore(w) ==
    IF w.cs.ejection_active /\ w.cs.has_indexer
    THEN resetDetectionState(
           stopAll(Emit([w EXCEPT !.cs.ejection_active = FALSE],
                        "printf", "Ball ejection stopped", 0)))
    ELSE w

stopEjection(w) ==
    IF w.cs.ejection_active /\ w.cs.has_indexer
    THEN restoreIndexerState(
           resetDetectionState(
             stopAll(Emit([w EXCEPT !.cs.ejection_active = FALSE],
                          "printf", "Ball ejection stopped", 0))))
    ELSE w

triggerEjection(w) == startEjection(w)

\* initialize: stores the reference to the scoring controller (indexer_ref
\* is FALSE for a null pointer) and answers whether both the reference and
\* the sensors are there; the proximity reads and the LED brightness of the
\* connectivity test touch no field and no actuator of the controllers
initialize(w, indexer_ref) ==
    [w EXCEPT !.cs.has_indexer = indexer_ref,
              !.ret = indexer_ref /\ w.cs.has_sensors]

setSortingMode(w, mode) == [w EXCEPT !.cs.current_mode = mode]

\* ColorSensorSystem::resetStatistics: the four counters back to zero
resetStatistics(w) ==
    Emit([w EXCEPT !.cs.red_balls_detected = 0,
                   !.cs.blue_balls_detected = 0,
                   !.cs.balls_ejected = 0,
                   !.cs.false_detections = 0],
         "printf", "Statistics reset", 0)

\* setEjectionDuration that stores the requested value as it is
setEjectionDuration_unclamped(w, duration_ms) ==
    [w EXCEPT !.cs.ejection_duration = duration_ms]

setEjectionDuration(w, duration_ms) ==
    [w EXCEPT !.cs.ejection_duration =
        IF duration_ms < BALL_EJECT_MIN_DURATION THEN BALL_EJECT_MIN_DURATION
        ELSE IF duration_ms > BALL_EJECT_MAX_DURATION THEN BALL_EJECT_MAX_DURATION
        ELSE duration_ms]

\* update: the trigger flag and time of one channel follow the ball's presence
sensorEdges(w, r1, r2, current_time) ==
    LET b1 == isBallPresent(r1)
        b2 == isBallPresent(r2)
        w1 == IF b1 /\ ~w.cs.sensor1_triggered
              THEN Emit([w EXCEPT !.cs.sensor1_triggered = TRUE,
                                  !.cs.sensor1_trigger_time = current_time],
                        "printf", "Ball detected at sensor", 1)
              ELSE IF ~b1 /\ w.cs.sensor1_triggered
              THEN Emit([w EXCEPT !.cs.sensor1_triggered = FALSE],
                        "printf", "Ball left sensor", 1)
              ELSE w
    IN  IF b2 /\ ~w1.cs.sensor2_triggered
        THEN Emit([w1 EXCEPT !.cs.sensor2_triggered = TRUE,
                             !.cs.sensor2_trigger_time = current_time],
                  "printf", "Ball detected at sensor", 2)
        ELSE IF ~b2 /\ w1.cs.sensor2_triggered
        THEN Emit([w1 EXCEPT !.cs.sensor2_triggered = FALSE],
                  "printf", "Ball left sensor", 2)
        ELSE w1

\* update: color detection at sensor 1 sets the last detected color
detectSensor1(w, r1) ==
    IF ~w.cs.sensor1_triggered THEN w
    ELSE LET a == addToColorBuffer(w, 1, readColorFromSensor(r1))
             c == a.retc
         IN  IF c # "UNKNOWN" /\ c # "NO_BALL"
             THEN Emit([a EXCEPT !.cs.last_detected_color = c,
                                 !.cs.red_balls_detected = IF c = "RED" THEN @ + 1 ELSE @,
                                 !.cs.blue_balls_detected = IF c = "BLUE" THEN @ + 1 ELSE @],
                       "printf", "Ball color confirmed", IF c = "RED" THEN 1 ELSE 2)
             ELSE a

\* update: color detection at sensor 2 only counts mismatches
detectSensor2(w, r2) ==
    IF ~w.cs.sensor2_triggered THEN w
    ELSE LET a == addToColorBuffer(w, 2, readColorFromSensor(r2))
             c == a.retc
         IN  IF c # "UNKNOWN" /\ c # "NO_BALL"
                /\ a.cs.last_detected_color # "UNKNOWN"
                /\ c # a.cs.last_detected_color
             THEN [a EXCEPT !.cs.false_detections = @ + 1]
             ELSE a

\* ejectCheck that does not wait for the ball to reach sensor 2
ejectCheck_withoutWait(w, current_time) ==
    IF w.cs.last_detected_color # "UNKNOWN"
       /\ w.cs.last_detected_color # "NO_BALL"
       /\ shouldEjectBall(w, w.cs.last_detected_color)
    THEN startEjection(Emit(w, "eject_due", w.cs.last_detected_color, 0))
    ELSE w

\* update: the eject decision and the wait for the ball to reach sensor 2
ejectCheck(w, current_time) ==
    IF w.cs.last_detected_color # "UNKNOWN"
       /\ w.cs.last_detected_color # "NO_BALL"
       /\ shouldEjectBall(w, w.cs.last_detected_color)
       /\ (w.cs.sensor2_triggered
           \/ U32Sub(current_time, w.cs.sensor2_trigger_time) < BALL_EJECT_DELAY_MS)
    THEN startEjection(Emit(w, "eject_due", w.cs.last_detected_color, 0))
    ELSE w

\* update: the end of the ejection, against the time read at the top of update
ejectionTiming(w, current_time) ==
    IF w.cs.ejection_active
       /\ U32Sub(current_time, w.cs.ejection_start_time) >= w.cs.ejection_duration
    THEN stopEjection(w)
    ELSE w

\* update: a channel triggered for longer than the passage timeout is reset
passageTimeouts(w, current_time) ==
    LET w1 == IF w.cs.sensor1_triggered
                 /\ U32Sub(current_time, w.cs.sensor1_trigger_time) > BALL_PASSAGE_TIMEOUT_MS
              THEN [w EXCEPT !.cs.sensor1_triggered = FALSE,
                             !.cs.last_detected_color = "UNKNOWN"]
              ELSE w
    IN  IF w1.cs.sensor2_triggered
           /\ U32Sub(current_time, w1.cs.sensor2_trigger_time) > BALL_PASSAGE_TIMEOUT_MS
        THEN [w1 EXCEPT !.cs.sensor2_triggered = FALSE]
        ELSE w1

\* ColorSensorSystem::update with the readings r1, r2 of the two sensors
\* csUpdate that does not look for its hardware first
csUpdate_withoutHardwareCheck(w, r1, r2) ==
    LET current_time == millis(w)
        w1 == sensorEdges(w, r1, r2, current_time)
        w2 == detectSensor2(detectSensor1(w1, r1), r2)
        w3 == [w2 EXCEPT !.cs.last_direction = determineBallDirection(w2)]
        w4 == ejectCheck(w3, current_time)
        w5 == ejectionTiming(w4, current_time)
    IN  passageTimeouts(w5, current_time)

csUpdate(w, r1, r2) ==
    IF ~w.cs.has_sensors \/ ~w.cs.has_indexer THEN w
    ELSE LET current_time == millis(w)
             w1 == sensorEdges(w, r1, r2, current_time)
             w2 == detectSensor2(detectSensor1(w1, r1), r2)
             w3 == [w2 EXCEPT !.cs.last_direction = determineBallDirection(w2)]
             w4 == ejectCheck(w3, current_time)
             w5 == ejectionTiming(w4, current_time)
         IN  passageTimeouts(w5, current_time)

\* opcontrol: an L1 edge lengthens the ejection by 50 ms and says so on the
\* controller
increaseEjectionDuration(w) ==
    print(setEjectionDuration(w, w.cs.ejection_duration + 50), "EJECT: +50ms")

\* opcontrol: an L2 edge shortens the ejection by 50 ms and says so on the
\* controller
decreaseEjectionDuration(w) ==
    print(IF w.cs.ejection_duration > 50
          THEN setEjectionDuration(w, w.cs.ejection_duration - 50)
          ELSE w,
          "EJECT: -50ms")

\* opcontrol: the sort toggle switches between COLLECT_ALL and COLLECT_RED
sortToggle(w) ==
    IF w.cs.current_mode = "COLLECT_ALL"
    THEN print(setSortingMode(w, "COLLECT_RED"), "SORT: ON")
    ELSE print(setSortingMode(w, "COLLECT_ALL"), "SORT: OFF")

\* The control loop's period: pros::delay(20) of opcontrol
TickPeriod == 20

\* opcontrol's pause after a change of the autonomous mode: pros::delay(2000)
MODE_CHANGE_PAUSE == 2000

\* opcontrol, the change of the autonomous mode during driver control: with
\* R1 and R2 both held at the top of a pass the loop announces the change on
\* the controller, polls the selector every 20 ms while either button is
\* held and the selector has confirmed nothing (polls waits in all),
\* announces the end and pauses
autoModeChange(w, polls) ==
    LET w1 == print(print(w, "CHANGE AUTO MODE"), "Use UP/DOWN/A")
        w2 == delay(w1, polls * TickPeriod)
        w3 == print(print(w2, "MODE CHANGED"), "Ready for testing")
    IN  delay(w3, MODE_CHANGE_PAUSE)

\* opcontrol, the top of the loop body; top is the pair of the buttons held
\* there and the waits of a change of the autonomous mode: the change under
\* R1 + R2, the time printed on the controller every 100th pass; held are
\* the inputs the subsystems read in the rest of the pass
passBegin(w, top, held) ==
    LET n  == w.oc.lcd_update_counter + 1
        w0 == IF {"R1", "R2"} \subseteq top[1] THEN autoModeChange(w, top[2]) ELSE w
        w1 == [w0 EXCEPT !.oc.held = held,
                         !.oc.lcd_update_counter = IF n >= 100 THEN 0 ELSE n]
    IN  IF n >= 100 THEN print(w1, "Time") ELSE w1

\* opcontrol, the sort controls after the sort controller's update: the
\* sticks select COLLECT_RED / COLLECT_BLUE, an edge of LEFT triggers an
\* ejection, an edge of RIGHT toggles the sorting, an edge of L1 / L2 tunes
\* the ejection duration, each with its text on the controller; then the
\* inputs are stored for the next pass
sortControls(w) ==
    LET held == w.oc.held
        edge(b) == b \in held /\ b \notin w.oc.prev
        w1 == IF edge("LSTICK")
              THEN print(setSortingMode(w, "COLLECT_RED"), "SORT: RED")
              ELSE IF edge("RSTICK")
              THEN print(setSortingMode(w, "COLLECT_BLUE"), "SORT: BLUE")
              ELSE w
        w2 == IF edge("LEFT")
              THEN print(triggerEjection(w1), "MANUAL EJECT")
              ELSE w1
        w3 == IF edge("RIGHT") THEN sortToggle(w2) ELSE w2
        w4 == IF edge("L1") THEN increaseEjectionDuration(w3)
              ELSE IF edge("L2") THEN decreaseEjectionDuration(w3)
              ELSE w3
    IN  [w4 EXCEPT !.oc.prev = held \cap SortControlInputs]

(***************************************************************************)
(* State machine                                                           *)
(***************************************************************************)
\* The clock when the control loop starts
BootTime == 1600

InitIx ==
    [current_mode |-> "NONE",
     last_direction |-> "NONE",
     scoring_active |-> FALSE,
     scoring_start_time |-> 0,
     input_motor_active |-> FALSE,
     score_from_top_storage |-> FALSE,
     front_flap_open |-> FALSE,
     storage_ball_count |-> 0,
     last_buttons |-> {},
     update_counter |-> 0,
     last_display_update |-> 0,
     force_display_update |-> TRUE,
     last_displayed_lines |-> <<<<>>, <<>>, <<>>>>]

\* The sort controller as its constructor leaves it: no scoring controller
\* attached yet, and the optical sensors there (created) unless their
\* creation threw
InitCs(created) ==
    [has_sensors |-> created,
     has_indexer |-> FALSE,
     current_mode |-> "COLLECT_ALL",
     last_detected_color |-> "UNKNOWN",
     last_direction |-> "UNKNOWN",
     sensor1_triggered |-> FALSE,
     sensor2_triggered |-> FALSE,
     sensor1_trigger_time |-> 0,
     sensor2_trigger_time |-> 0,
     ejection_active |-> FALSE,
     ejection_start_time |-> 0,
     ejection_duration |-> BALL_EJECT_DURATION_MS,
     saved_indexer_state |->
        [was_scoring_active |-> FALSE,
         was_input_active |-> FALSE,
         saved_scoring_mode |-> 0,
         saved_execution_direction |-> 0,
         valid |-> FALSE],
     sensor1_color_buffer |-> [i \in 1..COLOR_CONFIRMATION_COUNT |-> "NO_BALL"],
     sensor2_color_buffer |-> [i \in 1..COLOR_CONFIRMATION_COUNT |-> "NO_BALL"],
     sensor1_buffer_index |-> 0,
     sensor2_buffer_index |-> 0,
     red_balls_detected |-> 0,
     blue_balls_detected |-> 0,
     balls_ejected |-> 0,
     false_detections |-> 0]

InitHw ==
    [vel |-> [m \in Motors |-> 0],
     pto |-> "SCORER",
     pto_fault |-> FALSE,
     now |-> BootTime]

\* The static variables of opcontrol when the loop starts, no input read yet
InitOc ==
    [held |-> {},
     prev |-> {},
     lcd_update_counter |-> 0]

\* The world after the constructors, with the sort controller c
Constructed(c) ==
    [ix |-> InitIx, cs |-> c, hw |-> InitHw, oc |-> InitOc, log |-> <<>>,
     ret |-> FALSE, retc |-> "UNKNOWN"]

\* The state after initializeGlobalSubsystems with the sensors plugged in:
\* the constructors, then initialize with the scoring controller
Init ==
    LET w == initialize(Constructed(InitCs(TRUE)), TRUE)
    IN  /\ ix = w.ix
        /\ cs = w.cs
        /\ hw = w.hw
        /\ oc = w.oc
        /\ log = <<>>
        /\ call = [op |-> "init", ret |-> FALSE, retc |-> "UNKNOWN"]

\* The world an operation starts in: the state, and an empty command log
World == [ix |-> ix, cs |-> cs, hw |-> hw, oc |-> oc, log |-> <<>>, ret |-> FALSE,
          retc |-> "UNKNOWN"]

\* What the variable call records of an operation op that left the world r
Called(op, r) == [op |-> op, ret |-> r.ret, retc |-> r.retc]

\* The step of one operation op that leaves the world r, with the clock
\* within bound
Step(op, r, bound) ==
    /\ r.hw.now <= bound
    /\ ix' = r.ix
    /\ cs' = r.cs
    /\ hw' = r.hw
    /\ oc' = r.oc
    /\ log' = r.log
    /\ call' = Called(op, r)

\* Readings of an optical sensor: nothing in range, a red ball, a blue ball
NoBall == [prox |-> 255, hue |-> 0, sat |-> 0, bright |-> 0]

RedBall == [prox |-> 40, hue |-> 10, sat |-> 80, bright |-> 60]

BlueBall == [prox |-> 40, hue |-> 220, sat |-> 80, bright |-> 60]

\* No ball in front of either checkpoint
NoBallPairs == {<<NoBall, NoBall>>}

\* The ejections one run counts up to
MaxEjected == 2

\* The waits of a change of the autonomous mode: the buttons are let go, or
\* the selector confirms, before the first wait or during it
ModePolls == {0, 1}

\* The top of a pass: the buttons the subsystems read in the rest of it are
\* held, or R1 + R2 for a change of the autonomous mode
PassTops(btn) == {<<btn, 0>>} \cup {<<{"R1", "R2"}, p>> : p \in ModePolls}

\* A pass of opcontrol is under way: the scoring controller's update has
\* run, the sort controls have not
MidPass == call.op \in {"update", "cs_update"}

\* A pass of opcontrol is over, or none has run yet, and no call has been
\* made since
PassOver == call.op \in {"init", "controls"}

\* The second step of a pass of opcontrol: the sort controller's update, with
\* one of the pairs of readings
SortPhase(bound, pairs) == \E rp \in pairs :
    /\ hw.now <= bound
    /\ call.op = "update"
    /\ csUpdate(World, rp[1], rp[2]).cs.balls_ejected <= MaxEjected
    /\ Step("cs_update", csUpdate(World, rp[1], rp[2]), bound)

\* The third step of a pass of opcontrol: the sort controls, then the loop's
\* delay
ControlsPhase(bound) ==
    /\ hw.now <= bound
    /\ call.op = "cs_update"
    /\ sortControls(World).cs.balls_ejected <= MaxEjected
    /\ Step("controls", delay(sortControls(World), TickPeriod), bound)

(***************************************************************************)
(* Spec: the scoring controller called directly (autonomous routines)      *)
(***************************************************************************)
MaxNow == 2000

SetMode == \E mode \in ScoringModes \ {"NONE"} :
    /\ hw.now <= MaxNow
    /\ Step("setMode", setMode(World, mode), MaxNow)

ExecuteFront ==
    /\ hw.now <= MaxNow
    /\ Step("executeFront", executeFront(World), MaxNow)

ExecuteBack ==
    /\ hw.now <= MaxNow
    /\ Step("executeBack", executeBack(World), MaxNow)

StartIntakeAndStorage ==
    /\ hw.now <= MaxNow
    /\ Step("startIntakeAndStorage", startIntakeAndStorage(World), MaxNow)

StopAll ==
    /\ hw.now <= MaxNow
    /\ Step("stopAll", stopAll(World), MaxNow)

StartInput ==
    /\ hw.now <= MaxNow
    /\ Step("startInput", startInput(World), MaxNow)

ToggleStorageMode ==
    /\ hw.now <= MaxNow
    /\ Step("toggleStorageMode", toggleStorageMode(World), MaxNow)

AddBallToStorage ==
    /\ hw.now <= MaxNow
    /\ Step("addBallToStorage", addBallToStorage(World), MaxNow)

RemoveBallFromStorage ==
    /\ hw.now <= MaxNow
    /\ Step("removeBallFromStorage", removeBallFromStorage(World), MaxNow)

ResetStorageBallCount ==
    /\ hw.now <= MaxNow
    /\ Step("resetStorageBallCount", resetStorageBallCount(World), MaxNow)

\* PTO::toggle: the operator switches the coupling by hand
toggle(w) == IF isScorerMode(w) THEN setDrivetrainMode(w) ELSE setScorerMode(w)

TogglePTO ==
    /\ hw.now <= MaxNow
    /\ Step("togglePTO", toggle(World), MaxNow)

Next ==
    \/ SetMode
    \/ ExecuteFront
    \/ ExecuteBack
    \/ StartIntakeAndStorage
    \/ StopAll
    \/ StartInput
    \/ ToggleStorageMode
    \/ AddBallToStorage
    \/ RemoveBallFromStorage
    \/ ResetStorageBallCount
    \/ TogglePTO

Spec == Init /\ [][Next]_vars

(***************************************************************************)
(* SpecTick: the control loop pass by pass - the scoring controller's       *)
(* update, the sort controller's update with no ball in sight, the sort     *)
(* controls - and executeFront called directly between passes               *)
(***************************************************************************)
MaxNowTick == 2400

\* The button sets a tick is offered: no button, or one button alone
ButtonSets == {{}} \cup {{b} : b \in Buttons}

\* The passes of the loop one run of SpecTick takes
MaxPassesTick == 5

\* The first step of a pass of the control loop: the scoring controller's
\* update with the buttons held
Tick == \E btn \in ButtonSets :
    /\ hw.now <= MaxNowTick
    /\ ix.update_counter < MaxPassesTick
    /\ ~MidPass
    /\ Step("update", update(passBegin(World, <<btn, 0>>, btn), btn), MaxNowTick)

TickExecuteFront ==
    /\ hw.now <= MaxNowTick
    /\ ~MidPass
    /\ Step("executeFront", executeFront(World), MaxNowTick)

NextTick ==
    \/ Tick
    \/ SortPhase(MaxNowTick, NoBallPairs)
    \/ ControlsPhase(MaxNowTick)
    \/ TickExecuteFront

SpecTick == Init /\ [][NextTick]_vars

(***************************************************************************)
(* SpecTimeout: sequences an autonomous routine started with direct calls   *)
(* before the control loop runs, left running until the loop times them    *)
(* out                                                                     *)
(***************************************************************************)
MaxNowTimeout == 10200

TimeoutSetMode == \E mode \in ScoringModes \ {"NONE"} :
    /\ hw.now <= MaxNowTimeout
    /\ ix.update_counter = 0
    /\ Step("setMode", setMode(World, mode), MaxNowTimeout)

TimeoutExecuteFront ==
    /\ hw.now <= MaxNowTimeout
    /\ ix.update_counter = 0
    /\ Step("executeFront", executeFront(World), MaxNowTimeout)

TimeoutExecuteBack ==
    /\ hw.now <= MaxNowTimeout
    /\ ix.update_counter = 0
    /\ Step("executeBack", executeBack(World), MaxNowTimeout)

TimeoutStartStorage ==
    /\ hw.now <= MaxNowTimeout
    /\ ix.update_counter = 0
    /\ Step("startIntakeAndStorage", startIntakeAndStorage(World), MaxNowTimeout)

\* A pass of the loop with no button held
IdleTick ==
    /\ hw.now <= MaxNowTimeout
    /\ ~MidPass
    /\ Step("update", update(passBegin(World, <<{}, 0>>, {}), {}), MaxNowTimeout)

NextTimeout ==
    \/ TimeoutSetMode
    \/ TimeoutExecuteFront
    \/ TimeoutExecuteBack
    \/ TimeoutStartStorage
    \/ IdleTick
    \/ SortPhase(MaxNowTimeout, NoBallPairs)
    \/ ControlsPhase(MaxNowTimeout)

SpecTimeout == Init /\ [][NextTimeout]_vars

(***************************************************************************)
(* SpecBuf: the confirmation buffer of one channel fed sample by sample    *)
(***************************************************************************)
MaxSamples == 6

\* In SpecBuf the log is the history of the samples fed since the reset:
\* entry i has the color of sample i as k, the answer of addToColorBuffer as
\* m and the channel as v.  One run feeds one channel.
AddSample == \E sensor_num \in {1, 2}, color \in BallColors :
    LET r == addToColorBuffer(World, sensor_num, color)
    IN  /\ Len(log) < MaxSamples
        /\ IF log = <<>> THEN TRUE ELSE log[1].v = sensor_num
        /\ cs' = r.cs
        /\ log' = Append(log, Entry(color, r.retc, sensor_num))
        /\ call' = Called("addToColorBuffer", r)
        /\ UNCHANGED <<ix, hw, oc>>

ResetBuffers ==
    LET r == resetDetectionState(World)
    IN  /\ log # <<>>
        /\ cs' = r.cs
        /\ log' = <<>>
        /\ call' = Called("resetDetectionState", r)
        /\ UNCHANGED <<ix, hw, oc>>

NextBuf ==
    \/ AddSample
    \/ ResetBuffers

SpecBuf == Init /\ [][NextBuf]_vars

(***************************************************************************)
(* SpecSort: the control loop with no button read by the subsystems and    *)
(* balls passing the checkpoints, and between its passes calls of the sort  *)
(* controller's interface - the sorting mode, triggerEjection, stopEjection,*)
(* resetStatistics - and a sequence of the scoring controller started while *)
(* it is idle                                                               *)
(***************************************************************************)
MaxNowSort == 3900

\* The passes of the loop one run of SpecSort takes
MaxPassesSort == 4

\* The pairs of readings a pass is offered: a ball at one checkpoint
ReadingPairs ==
    {<<NoBall, NoBall>>, <<RedBall, NoBall>>, <<BlueBall, NoBall>>,
     <<NoBall, RedBall>>, <<NoBall, BlueBall>>}

\* The first step of a pass: the top of the loop body, then the scoring
\* controller's update with no button held
SortIndexerTick == \E top \in PassTops({}) :
    /\ hw.now <= MaxNowSort
    /\ ix.update_counter < MaxPassesSort
    /\ ~MidPass
    /\ Step("update", update(passBegin(World, top, {}), {}), MaxNowSort)

\* The second step of a pass: the sort controller's update with a pair of
\* readings
SortTick == SortPhase(MaxNowSort, ReadingPairs)

SetSortingMode == \E mode \in SortingModes :
    /\ hw.now <= MaxNowSort
    /\ PassOver
    /\ Step("setSortingMode", setSortingMode(World, mode), MaxNowSort)

TriggerEjection ==
    /\ hw.now <= MaxNowSort
    /\ PassOver
    /\ triggerEjection(World).cs.balls_ejected <= MaxEjected
    /\ Step("triggerEjection", triggerEjection(World), MaxNowSort)

StopEjection ==
    /\ hw.now <= MaxNowSort
    /\ PassOver
    /\ Step("stopEjection", stopEjection(World), MaxNowSort)

ResetStatistics ==
    /\ hw.now <= MaxNowSort
    /\ PassOver
    /\ Step("resetStatistics", resetStatistics(World), MaxNowSort)

\* The driver's routine starts a sequence while none is running
SortExecuteFront ==
    /\ hw.now <= MaxNowSort
    /\ PassOver
    /\ ~ix.scoring_active
    /\ Step("executeFront", executeFront(setMidGoalMode(World)), MaxNowSort)

NextSort ==
    \/ SortIndexerTick
    \/ SortTick
    \/ ControlsPhase(MaxNowSort)
    \/ SetSortingMode
    \/ TriggerEjection
    \/ StopEjection
    \/ ResetStatistics
    \/ SortExecuteFront

SpecSort == Init /\ [][NextSort]_vars

(***************************************************************************)
(* SpecMixed: direct calls interleaved with passes of the control loop,     *)
(* with the flap toggled by hand and a coupling that can fail to switch     *)
(***************************************************************************)
MaxNowMixed == 1900

\* The pneumatics of the coupling lose or regain their air supply: while
\* they have none the coupling stays where it is whatever it is told
ptoFault(w) == [w EXCEPT !.hw.pto_fault = ~@]

MixedSetMode == \E mode \in ScoringModes \ {"NONE"} :
    /\ hw.now <= MaxNowMixed
    /\ ~MidPass
    /\ Step("setMode", setMode(World, mode), MaxNowMixed)

MixedExecuteFront ==
    /\ hw.now <= MaxNowMixed
    /\ ~MidPass
    /\ Step("executeFront", executeFront(World), MaxNowMixed)

MixedExecuteBack ==
    /\ hw.now <= MaxNowMixed
    /\ ~MidPass
    /\ Step("executeBack", executeBack(World), MaxNowMixed)

MixedStartIntakeAndStorage ==
    /\ hw.now <= MaxNowMixed
    /\ ~MidPass
    /\ Step("startIntakeAndStorage", startIntakeAndStorage(World), MaxNowMixed)

MixedToggleFrontFlap ==
    /\ hw.now <= MaxNowMixed
    /\ ~MidPass
    /\ Step("toggleFrontFlap", toggleFrontFlap(World), MaxNowMixed)

MixedTogglePTO ==
    /\ hw.now <= MaxNowMixed
    /\ ~MidPass
    /\ Step("togglePTO", toggle(World), MaxNowMixed)

MixedPtoFault ==
    /\ hw.now <= MaxNowMixed
    /\ ~MidPass
    /\ Step("ptoFault", ptoFault(World), MaxNowMixed)

\* The button sets a pass of SpecMixed is offered: no button, or one of the
\* two execute buttons alone
ExecuteButtonSets == {{}, {"R2"}, {"R1"}}

\* The passes of the loop one run of SpecMixed takes
MaxPassesMixed == 1

MixedTick == \E btn \in ExecuteButtonSets :
    /\ hw.now <= MaxNowMixed
    /\ ix.update_counter < MaxPassesMixed
    /\ ~MidPass
    /\ Step("update", update(passBegin(World, <<btn, 0>>, btn), btn), MaxNowMixed)

NextMixed ==
    \/ MixedSetMode
    \/ MixedExecuteFront
    \/ MixedExecuteBack
    \/ MixedStartIntakeAndStorage
    \/ MixedToggleFrontFlap
    \/ MixedTogglePTO
    \/ MixedPtoFault
    \/ MixedTick
    \/ SortPhase(MaxNowMixed, NoBallPairs)
    \/ ControlsPhase(MaxNowMixed)

SpecMixed == Init /\ [][NextMixed]_vars

(***************************************************************************)
(* SpecLoop: both controllers driven by the control loop, in the order of   *)
(* opcontrol: the scoring controller's update, the sort controller's        *)
(* update, then the sort controls                                           *)
(***************************************************************************)
MaxNowLoop == 4300

\* The button sets a pass of SpecLoop is offered: no button, the MID_GOAL or
\* the TOP_GOAL selector, LEFT (the storage toggle and the manual eject
\* button) or RIGHT (the flap toggle and the sort toggle)
LoopButtonSets == {{}, {"A"}, {"X"}, {"LEFT"}, {"RIGHT"}}

\* The pairs of readings a pass of SpecLoop is offered: no ball, or a blue
\* ball at one checkpoint
LoopReadingPairs == {<<NoBall, NoBall>>, <<BlueBall, NoBall>>, <<NoBall, BlueBall>>}

\* The passes of the loop one run of SpecLoop takes
MaxPassesLoop == 4

\* The first step of a pass: the top of the loop body, then the scoring
\* controller's update
LoopIndexerTick == \E btn \in LoopButtonSets : \E top \in PassTops(btn) :
    /\ hw.now <= MaxNowLoop
    /\ ix.update_counter < MaxPassesLoop
    /\ ~MidPass
    /\ Step("update", update(passBegin(World, top, btn), btn), MaxNowLoop)

\* The second half of a pass: the sort controller's update
LoopSortTick == \E rp \in LoopReadingPairs :
    /\ hw.now <= MaxNowLoop
    /\ call.op = "update"
    /\ csUpdate(World, rp[1], rp[2]).cs.balls_ejected <= MaxEjected
    /\ Step("cs_update", csUpdate(World, rp[1], rp[2]), MaxNowLoop)

NextLoop ==
    \/ LoopIndexerTick
    \/ LoopSortTick
    \/ ControlsPhase(MaxNowLoop)

SpecLoop == Init /\ [][NextLoop]_vars

(***************************************************************************)
(* SpecRetry: whole passes of the control loop (the scoring controller's    *)
(* update, the sort controller's update, the sort controls) with the        *)
(* LOW_GOAL selector and the manual eject button                            *)
(***************************************************************************)
MaxNowRetry == 5400

\* The button sets a pass of SpecRetry is offered: no button, the LOW_GOAL
\* selector, or LEFT: the manual eject button and the storage toggle
RetryButtonSets == {{}, {"B"}, {"LEFT"}}

\* The pairs of readings a pass of SpecRetry is offered: no ball, or a blue
\* ball at checkpoint 2
RetryReadingPairs == {<<NoBall, NoBall>>, <<NoBall, BlueBall>>}

\* One whole pass of opcontrol: the top of the loop body, the scoring
\* controller's update, the sort controller's update, the sort controls, the
\* loop's delay
loopPass(w, top, btn, r1, r2) ==
    delay(sortControls(csUpdate(update(passBegin(w, top, btn), btn), r1, r2)),
          TickPeriod)

\* The passes of the loop one run of SpecRetry takes
MaxPassesRetry == 5

RetryPass == \E btn \in RetryButtonSets, rp \in RetryReadingPairs :
    /\ hw.now <= MaxNowRetry
    /\ ix.update_counter < MaxPassesRetry
    /\ loopPass(World, <<btn, 0>>, btn, rp[1], rp[2]).cs.balls_ejected <= MaxEjected
    /\ Step("pass", loopPass(World, <<btn, 0>>, btn, rp[1], rp[2]), MaxNowRetry)

NextRetry == RetryPass

SpecRetry == Init /\ [][NextRetry]_vars

(***************************************************************************)
(* SpecPush: the control loop with the buttons of the push, after a routine *)
(* of direct calls that may have left the intake running (startInput,       *)
(* red_left_auton.cpp) and counted balls into the storage (addBallToStorage,*)
(* the storage test routine)                                                *)
(***************************************************************************)
MaxNowPush == 2400

\* The buttons held at a pass: none, a selector (Y, B), an execute button or
\* the storage button alone
PushButtonSets == {{}, {"Y"}, {"B"}, {"R2"}, {"R1"}, {"LEFT"}}

\* The passes of the loop one run of SpecPush takes
MaxPassesPush == 7

PushTick == \E btn \in PushButtonSets :
    /\ hw.now <= MaxNowPush
    /\ ix.update_counter < MaxPassesPush
    /\ ~MidPass
    /\ Step("update", update(passBegin(World, <<btn, 0>>, btn), btn), MaxNowPush)

\* Before the first pass of the loop
PushStartInput ==
    /\ hw.now <= MaxNowPush
    /\ ix.update_counter = 0
    /\ Step("startInput", startInput(World), MaxNowPush)

\* Before the first pass of the loop
PushAddBallToStorage ==
    /\ hw.now <= MaxNowPush
    /\ ix.update_counter = 0
    /\ Step("addBallToStorage", addBallToStorage(World), MaxNowPush)

NextPush ==
    \/ PushTick
    \/ SortPhase(MaxNowPush, NoBallPairs)
    \/ ControlsPhase(MaxNowPush)
    \/ PushStartInput
    \/ PushAddBallToStorage

SpecPush == Init /\ [][NextPush]_vars

(***************************************************************************)
(* SpecBench: the control loop on the test bench: either piece of hardware  *)
(* may be missing after construction, no button is read by the subsystems,  *)
(* and between the passes the storage count, the storage source and the     *)
(* sorting mode are set and an ejection is triggered by calls               *)
(***************************************************************************)
MaxNowBench == 3900

\* The passes of the loop one run of SpecBench takes
MaxPassesBench == 4

\* After construction the optical sensors may be missing (the constructor
\* caught the exception), and initialize may have been given no scoring
\* controller
InitBench ==
    \E s \in BOOLEAN, i \in BOOLEAN :
       LET w == initialize(Constructed(InitCs(s)), i)
       IN  /\ ix = w.ix
           /\ cs = w.cs
           /\ hw = w.hw
           /\ oc = w.oc
           /\ log = <<>>
           /\ call = [op |-> "init", ret |-> FALSE, retc |-> "UNKNOWN"]

\* A red ball at one checkpoint or none
BenchReadingPairs == {<<NoBall, NoBall>>, <<RedBall, NoBall>>, <<NoBall, RedBall>>}

BenchIndexerTick == \E top \in PassTops({}) :
    /\ hw.now <= MaxNowBench
    /\ ix.update_counter < MaxPassesBench
    /\ ~MidPass
    /\ Step("update", update(passBegin(World, top, {}), {}), MaxNowBench)

BenchSortTick == SortPhase(MaxNowBench, BenchReadingPairs)

BenchTriggerEjection ==
    /\ hw.now <= MaxNowBench
    /\ ~MidPass
    /\ triggerEjection(World).cs.balls_ejected <= MaxEjected
    /\ Step("triggerEjection", triggerEjection(World), MaxNowBench)

BenchSetSortingMode == \E mode \in {"COLLECT_RED", "COLLECT_BLUE"} :
    /\ hw.now <= MaxNowBench
    /\ ~MidPass
    /\ Step("setSortingMode", setSortingMode(World, mode), MaxNowBench)

BenchAddBallToStorage ==
    /\ hw.now <= MaxNowBench
    /\ ~MidPass
    /\ Step("addBallToStorage", addBallToStorage(World), MaxNowBench)

BenchToggleStorageMode ==
    /\ hw.now <= MaxNowBench
    /\ ~MidPass
    /\ Step("toggleStorageMode", toggleStorageMode(World), MaxNowBench)

NextBench ==
    \/ BenchIndexerTick
    \/ BenchSortTick
    \/ ControlsPhase(MaxNowBench)
    \/ BenchTriggerEjection
    \/ BenchSetSortingMode
    \/ BenchAddBallToStorage
    \/ BenchToggleStorageMode

SpecBench == InitBench /\ [][NextBench]_vars

(***************************************************************************)
(* SpecTune: the ejection duration set by a direct call and tuned with L1   *)
(* and L2 in whole passes of the control loop, in which the manual eject    *)
(* button starts ejections                                                  *)
(***************************************************************************)
MaxNowTune == 5700

\* The durations asked of setEjectionDuration
RequestedDurations == {0, 299, 801, 5000}

TuneSetEjectionDuration == \E d \in RequestedDurations :
    /\ hw.now <= MaxNowTune
    /\ Step("setEjectionDuration", setEjectionDuration(World, d), MaxNowTune)

\* The inputs a pass of SpecTune is offered: none, L1 (+50 ms), L2 (-50 ms)
\* or LEFT (the manual eject button and the storage toggle)
TuneButtonSets == {{}, {"L1"}, {"L2"}, {"LEFT"}}

\* The passes of the loop one run of SpecTune takes
MaxPassesTune == 8

\* One whole pass of opcontrol with no ball at the checkpoints
TunePass == \E btn \in TuneButtonSets :
    /\ hw.now <= MaxNowTune
    /\ ix.update_counter < MaxPassesTune
    /\ loopPass(World, <<btn, 0>>, btn, NoBall, NoBall).cs.balls_ejected <= MaxEjected
    /\ Step("pass", loopPass(World, <<btn, 0>>, btn, NoBall, NoBall), MaxNowTune)

NextTune ==
    \/ TuneSetEjectionDuration
    \/ TunePass

SpecTune == Init /\ [][NextTune]_vars

(***************************************************************************)
(* SpecPress: the control loop with the selectors and the execute buttons,  *)
(* after a routine that counted balls into the storage (addBallToStorage),  *)
(* with the coupling switched by hand between passes and able to fail       *)
(***************************************************************************)
MaxNowPress == 4800

\* The buttons held at a pass: none, a selector (Y, B, X) or an execute
\* button alone
PressButtonSets == {{}, {"Y"}, {"B"}, {"X"}, {"R2"}, {"R1"}}

\* The passes of the loop one run of SpecPress takes
MaxPassesPress == 4

PressTick == \E btn \in PressButtonSets :
    /\ hw.now <= MaxNowPress
    /\ ix.update_counter < MaxPassesPress
    /\ ~MidPass
    /\ Step("update", update(passBegin(World, <<btn, 0>>, btn), btn), MaxNowPress)

\* Before the first pass of the loop
PressAddBallToStorage ==
    /\ hw.now <= MaxNowPress
    /\ ix.update_counter = 0
    /\ Step("addBallToStorage", addBallToStorage(World), MaxNowPress)

PressTogglePTO ==
    /\ hw.now <= MaxNowPress
    /\ PassOver
    /\ Step("togglePTO", toggle(World), MaxNowPress)

PressPtoFault ==
    /\ hw.now <= MaxNowPress
    /\ PassOver
    /\ Step("ptoFault", ptoFault(World), MaxNowPress)

NextPress ==
    \/ PressTick
    \/ SortPhase(MaxNowPress, NoBallPairs)
    \/ ControlsPhase(MaxNowPress)
    \/ PressAddBallToStorage
    \/ PressTogglePTO
    \/ PressPtoFault

SpecPress == Init /\ [][NextPress]_vars

(***************************************************************************)
(* SpecGuard: both controllers driven by the control loop while blue balls  *)
(* pass the checkpoints, with the MID_GOAL selector, the sort toggle and    *)
(* the manual eject button; the log is the output of the whole run          *)
(***************************************************************************)
MaxNowGuard == 3000

\* The button sets a pass of SpecGuard is offered: no button, the MID_GOAL
\* selector, RIGHT (the sort toggle and the flap toggle) or LEFT (the manual
\* eject button and the storage toggle)
GuardButtonSets == {{}, {"A"}, {"RIGHT"}, {"LEFT"}}

\* The passes of the loop one run of SpecGuard takes
MaxPassesGuard == 5

\* The step of one operation op that leaves the world r, its output
\* appended to the output of the run so far
Keep(op, r, bound) ==
    /\ r.hw.now <= bound
    /\ ix' = r.ix
    /\ cs' = r.cs
    /\ hw' = r.hw
    /\ oc' = r.oc
    /\ log' = log \o r.log
    /\ call' = Called(op, r)

GuardIndexerTick == \E btn \in GuardButtonSets :
    /\ hw.now <= MaxNowGuard
    /\ ix.update_counter < MaxPassesGuard
    /\ ~MidPass
    /\ Keep("update", update(passBegin(World, <<btn, 0>>, btn), btn), MaxNowGuard)

GuardSortTick == \E rp \in LoopReadingPairs :
    /\ hw.now <= MaxNowGuard
    /\ call.op = "update"
    /\ csUpdate(World, rp[1], rp[2]).cs.balls_ejected <= MaxEjected
    /\ Keep("cs_update", csUpdate(World, rp[1], rp[2]), MaxNowGuard)

GuardControls ==
    /\ hw.now <= MaxNowGuard
    /\ call.op = "cs_update"
    /\ sortControls(World).cs.balls_ejected <= MaxEjected
    /\ Keep("controls", delay(sortControls(World), TickPeriod), MaxNowGuard)

NextGuard ==
    \/ GuardIndexerTick
    \/ GuardSortTick
    \/ GuardControls

SpecGuard == Init /\ [][NextGuard]_vars

(***************************************************************************)
(* Properties                                                              *)
(***************************************************************************)
\* The fields of the scoring controller other than the bookkeeping of its
\* controller display
ScoringFields ==
    {"current_mode", "last_direction", "scoring_active", "scoring_start_time",
     "input_motor_active", "score_from_top_storage", "front_flap_open",
     "storage_ball_count", "last_buttons"}

Scoring(x) == [f \in ScoringFields |-> x[f]]

\* What the loop prints on the controller display whatever the buttons do:
\* the status lines, the count of updates, the time, the change of the
\* autonomous mode
DisplayPrints ==
    {Entry("print", t, 0) :
        t \in {"DISPLAY line 0", "DISPLAY line 1", "DISPLAY line 2",
               "Updates", "Time", "CHANGE AUTO MODE", "Use UP/DOWN/A",
               "MODE CHANGED", "Ready for testing"}}

\* The commands of a log other than those display prints
Commands(lg) == SelectSeq(lg, LAMBDA e : e \notin DisplayPrints)

AllStopped(h) == \A m \in Motors : h.vel[m] = 0

\* How many entries of the command log lg are e
Count(lg, e) == Cardinality({i \in 1..Len(lg) : lg[i] = e})

\* The velocity target of motor m after the first i commands of lg, from
\* the targets v0
RECURSIVE VelAfter(_, _, _, _)
VelAfter(lg, v0, i, m) ==
    IF i = 0 THEN v0[m]
    ELSE IF lg[i].k = "vel" /\ lg[i].m = m THEN lg[i].v
    ELSE VelAfter(lg, v0, i - 1, m)

\* C1: after any sequence of addBallToStorage, removeBallFromStorage,
\* resetStorageBallCount and executes with the storage source on, the storage
\* count is in 0..3; addBallToStorage at 3 and removeBallFromStorage at 0
\* return false and leave the count, every other add / remove returns true
\* and changes it by exactly one; an execute with the storage source on takes
\* one ball off the count (none at 0, none in the front TOP_GOAL case, which
\* has no storage branch).
StorageCountBounded ==
    [][/\ ix'.storage_ball_count \in 0..3
       /\ call'.op = "addBallToStorage" =>
            IF ix.storage_ball_count = 3
            THEN ~call'.ret /\ ix'.storage_ball_count = 3
            ELSE call'.ret /\ ix'.storage_ball_count = ix.storage_ball_count + 1
       /\ call'.op = "removeBallFromStorage" =>
            IF ix.storage_ball_count = 0
            THEN ~call'.ret /\ ix'.storage_ball_count = 0
            ELSE call'.ret /\ ix'.storage_ball_count = ix.storage_ball_count - 1
       /\ call'.op = "resetStorageBallCount" => ix'.storage_ball_count = 0
       /\ (call'.op \in {"executeFront", "executeBack"}
           /\ ix.score_from_top_storage /\ ix.current_mode # "NONE") =>
            ix'.storage_ball_count =
              IF ix.storage_ball_count = 0
                 \/ (call'.op = "executeFront" /\ ix.current_mode = "TOP_GOAL")
              THEN ix.storage_ball_count
              ELSE ix.storage_ball_count - 1
      ]_vars

\* C1 witness: an add refused at the limit
StorageAddRefusedAtLimit ==
    /\ call.op = "addBallToStorage"
    /\ ~call.ret
    /\ ix.storage_ball_count = 3

\* C2: an execute called while a sequence is active, in any mode but NONE and
\* either direction, first brings all four velocity targets to zero with
\* active = false (stopAll) and only then issues a non-zero command.
ExecuteStopsBeforeRestart ==
    [][(call'.op \in {"executeFront", "executeBack"}
        /\ ix.scoring_active /\ ix.current_mode # "NONE") =>
         \E i \in 1..Len(log') :
            /\ log'[i] = Entry("active", "false", 0)
            /\ \A m \in Motors : VelAfter(log', hw.vel, i, m) = 0
            /\ \A j \in 1..i : log'[j].k = "vel" => log'[j].v = 0
      ]_vars

\* C2 witness: an execute whose log has the stop and, after it, a non-zero
\* velocity command
ExecuteRestartedSequence ==
    /\ call.op \in {"executeFront", "executeBack"}
    /\ \E i \in 1..Len(log) : \E j \in (i + 1)..Len(log) :
          /\ log[i] = Entry("active", "false", 0)
          /\ log[j].k = "vel" /\ log[j].v # 0

\* The colors fed to the channel since its reset, and the answers
SampleColors == [i \in 1..Len(log) |-> log[i].k]

SampleAnswers == [i \in 1..Len(log) |-> log[i].m]

\* The buffer of the channel the run feeds
FedBuffer ==
    IF log[1].v = 1 THEN cs.sensor1_color_buffer ELSE cs.sensor2_color_buffer

\* C3: the confirmation buffer of a channel confirms color c at a sample iff
\* c is RED or BLUE and the three entries of the buffer equal c once the
\* sample is in, that is iff the last three samples are c; from a reset
\* buffer RED RED BLUE never confirms, RED RED RED confirms RED at sample 3
\* only, RED RED RED BLUE BLUE BLUE confirms RED at 3 and BLUE at 6 only.
ConfirmationIsUnanimous ==
    /\ \A n \in 1..Len(log) :
          log[n].m = IF /\ log[n].k \in {"RED", "BLUE"}
                        /\ n >= 3
                        /\ log[n - 1].k = log[n].k
                        /\ log[n - 2].k = log[n].k
                     THEN log[n].k ELSE "UNKNOWN"
    /\ log # <<>> =>
          LET c == log[Len(log)].k
          IN  /\ log[Len(log)].m \in {c, "UNKNOWN"}
              /\ (log[Len(log)].m # "UNKNOWN") <=>
                   (c \in {"RED", "BLUE"} /\ \A i \in 1..3 : FedBuffer[i] = c)
    /\ SampleColors = <<"RED", "RED", "BLUE">> =>
          SampleAnswers = <<"UNKNOWN", "UNKNOWN", "UNKNOWN">>
    /\ SampleColors = <<"RED", "RED", "RED">> =>
          SampleAnswers = <<"UNKNOWN", "UNKNOWN", "RED">>
    /\ SampleColors = <<"RED", "RED", "RED", "BLUE", "BLUE", "BLUE">> =>
          SampleAnswers = <<"UNKNOWN", "UNKNOWN", "RED", "UNKNOWN", "UNKNOWN", "BLUE">>

\* C3 witness: the sixth sample of RED RED RED BLUE BLUE BLUE confirms BLUE
ConfirmedBlueAtSixth ==
    /\ call.op = "addToColorBuffer"
    /\ SampleColors = <<"RED", "RED", "RED", "BLUE", "BLUE", "BLUE">>
    /\ call.retc = "BLUE"

\* The reference table of the sorting modes
EjectTable ==
    [COLLECT_RED  |-> [RED |-> FALSE, BLUE |-> TRUE],
     COLLECT_BLUE |-> [RED |-> TRUE,  BLUE |-> FALSE],
     COLLECT_ALL  |-> [RED |-> FALSE, BLUE |-> FALSE],
     EJECT_ALL    |-> [RED |-> TRUE,  BLUE |-> TRUE]]

\* C4: shouldEjectBall agrees with the reference table in every sorting mode
\* for both confirmed colors: COLLECT_RED ejects BLUE only, COLLECT_BLUE
\* ejects RED only, COLLECT_ALL ejects nothing, EJECT_ALL ejects both.
ShouldEjectMatchesTable ==
    \A color \in {"RED", "BLUE"} :
        shouldEjectBall(World, color) = EjectTable[cs.current_mode][color]

\* C4 witness: a pass of the loop that started the ejection of a ball in
\* EJECT_ALL mode
EjectAllStartedEjection ==
    /\ call.op = "cs_update"
    /\ cs.current_mode = "EJECT_ALL"
    /\ Count(log, Entry("printf", "BALL EJECTION STARTING", 0)) = 1

\* The ejections a step starts and the ejections it stops, read off the
\* controller's state before and after; resetStatistics zeroes the counter
\* and starts nothing
EjectionsStarted ==
    IF call'.op = "resetStatistics" THEN 0
    ELSE cs'.balls_ejected - cs.balls_ejected

EjectionsStopped ==
    EjectionsStarted + (IF cs.ejection_active THEN 1 ELSE 0)
                     - (IF cs'.ejection_active THEN 1 ELSE 0)

\* C5: every ejection that becomes active captures the snapshot exactly once
\* (saveIndexerState) and its stop attempts the restore exactly once
\* (restoreIndexerState); stopEjection called while no ejection is active
\* changes nothing of either controller and commands nothing.
OneSaveOneRestorePerEjection ==
    [][/\ Count(log', Entry("call", "saveIndexerState", 0)) = EjectionsStarted
       /\ Count(log', Entry("call", "restoreIndexerState", 0)) = EjectionsStopped
       /\ EjectionsStarted \in {0, 1}
       /\ EjectionsStopped \in {0, 1}
       /\ (call'.op = "stopEjection" /\ ~cs.ejection_active) =>
            ix' = ix /\ cs' = cs /\ hw' = hw /\ log' = <<>>
      ]_vars

\* C5 witness: the pass of the loop that ends a manually triggered ejection:
\* one restore, and the snapshot invalid again
EjectionCycleCompleted ==
    /\ call.op = "cs_update"
    /\ cs.balls_ejected = 1
    /\ ~cs.ejection_active
    /\ Count(log, Entry("call", "restoreIndexerState", 0)) = 1
    /\ Count(log, Entry("call", "saveIndexerState", 0)) = 0

\* C6: a pass of the loop stops (stopAll) an active sequence in LOW_GOAL mode
\* once more than 3000 ms passed since its start, whatever its direction -
\* FRONT and BACK of the 5000 ms bucket as well as STORAGE of the 8000 ms
\* bucket; no pass leaves a LOW_GOAL sequence active beyond 3000 ms.
LowGoalStoppedAt3000 ==
    [][call'.op = "update" =>
         /\ (ix'.scoring_active /\ ix'.current_mode = "LOW_GOAL") =>
              U32Sub(hw'.now, ix'.scoring_start_time) <= 3000
         /\ (ix.scoring_active /\ ix.current_mode = "LOW_GOAL"
             /\ U32Sub(hw'.now, ix.scoring_start_time) > 3000) =>
              /\ ~ix'.scoring_active
              /\ ix'.last_direction = "NONE"
              /\ ~ix'.input_motor_active
              /\ AllStopped(hw')
      ]_vars

\* C6 witness: a pass that timed out a LOW_GOAL sequence of direction STORAGE
\* before the 5000 ms of the generic bucket
LowGoalStorageTimedOut ==
    /\ call.op = "update"
    /\ Count(log, Entry("low_timeout", "STORAGE", 0)) = 1
    /\ U32Sub(hw.now, ix.scoring_start_time) <= 5000
    /\ ~ix.scoring_active

\* The Collection/Front values of the speed table
CollectionFrontTable ==
    [input |-> 550, left |-> -550, right |-> -350, top |-> 400]

\* A step that is a direct call of executeFront
FrontExecuteCalled == call'.op = "executeFront"

\* A step that is a pass of the loop with a rising edge of the front execute
\* button R2 and no other button held
FrontExecuteEdge ==
    /\ call'.op = "update"
    /\ ix'.last_buttons = {"R2"}
    /\ "R2" \notin ix.last_buttons

CollectionIntoFront ==
    ix.current_mode = "COLLECTION" /\ ~ix.score_from_top_storage

\* C7 as stated: with COLLECTION selected and the storage source off, a front
\* execute - a direct executeFront or a front execute button edge of the
\* loop - leaves intake, left, right and top at 550, -550, -350, 400 RPM,
\* active and direction FRONT.
CollectionFrontEitherWay ==
    [][((FrontExecuteCalled \/ FrontExecuteEdge) /\ CollectionIntoFront) =>
         /\ hw'.vel = CollectionFrontTable
         /\ ix'.scoring_active
         /\ ix'.last_direction = "FRONT"
      ]_vars

\* C7 amended: with COLLECTION selected and the storage source off, a direct
\* executeFront leaves intake, left, right and top at 550, -550, -350, 400
\* RPM, active and direction FRONT; a front execute button edge of the loop
\* instead runs the push: the intake alone at 550 RPM with the three indexers
\* at zero, active and direction FRONT.
CollectionFrontDirectCall ==
    [][/\ (FrontExecuteCalled /\ CollectionIntoFront) =>
            /\ hw'.vel = CollectionFrontTable
            /\ ix'.scoring_active
            /\ ix'.last_direction = "FRONT"
       /\ (FrontExecuteEdge /\ CollectionIntoFront) =>
            /\ hw'.vel = [input |-> 550, left |-> 0, right |-> 0, top |-> 0]
            /\ ix'.scoring_active
            /\ ix'.last_direction = "FRONT"
      ]_vars

\* C7 witness: a direct executeFront in COLLECTION mode that left the table
\* values
CollectionFrontRunning ==
    /\ call.op = "executeFront"
    /\ ix.current_mode = "COLLECTION"
    /\ ~ix.score_from_top_storage
    /\ hw.vel = CollectionFrontTable
    /\ ix.scoring_active

\* C8: with the storage count at 3, startIntakeAndStorage is rejected: it
\* reports "STORAGE FULL!" and that is its only command; the count stays 3
\* and mode, direction, active, input_active and flap keep their values,
\* also when a sequence was active at the call.
StorageFullRejected ==
    [][(call'.op = "startIntakeAndStorage" /\ ix.storage_ball_count = 3) =>
         /\ log' = <<Entry("print", "STORAGE FULL!", 0)>>
         /\ ix' = ix
         /\ hw' = hw
      ]_vars

\* C8 witness: a rejected startIntakeAndStorage with a sequence still active
StorageFullRejectedWhileActive ==
    /\ call.op = "startIntakeAndStorage"
    /\ ix.storage_ball_count = 3
    /\ ix.scoring_active
    /\ log = <<Entry("print", "STORAGE FULL!", 0)>>

\* C9 as stated: in COLLECT_RED mode with the scoring controller idle, the
\* pass of the loop that starts the ejection of the confirmed BLUE ball
\* leaves the ejection active, the scoring controller in MID_GOAL mode,
\* direction BACK, active; the ejection lasts until its duration has passed.
EjectionRunsForItsDuration ==
    [][(call'.op = "cs_update" /\ cs.current_mode = "COLLECT_RED"
        /\ ~ix.scoring_active /\ EjectionsStarted = 1) =>
         /\ cs'.ejection_active
         /\ ix'.current_mode = "MID_GOAL"
         /\ ix'.last_direction = "BACK"
         /\ ix'.scoring_active
      ]_vars

\* C9 witness: the pass of the loop that started the ejection of a BLUE ball
\* in COLLECT_RED mode has already stopped it: the clock read at the top of
\* update is behind ejection_start_time, and the unsigned difference wraps
EjectionStoppedInSamePass ==
    /\ call.op = "cs_update"
    /\ cs.current_mode = "COLLECT_RED"
    /\ Count(log, Entry("printf", "BALL EJECTION STARTING", 0)) = 1
    /\ Count(log, Entry("printf", "Ball ejection stopped", 0)) = 1
    /\ ~cs.ejection_active
    /\ ~ix.scoring_active

\* C10: stopAll ends with the four velocity targets zero, the flap closed,
\* active = false, direction NONE and input_active = false, and leaves mode,
\* storage count and storage source as they were.
StopAllStopsEverything ==
    [][call'.op = "stopAll" =>
         /\ AllStopped(hw')
         /\ ~ix'.front_flap_open
         /\ ~ix'.scoring_active
         /\ ix'.last_direction = "NONE"
         /\ ~ix'.input_motor_active
         /\ ix'.current_mode = ix.current_mode
         /\ ix'.storage_ball_count = ix.storage_ball_count
         /\ ix'.score_from_top_storage = ix.score_from_top_storage
      ]_vars

\* C10 witness: stopAll has run with a mode selected, balls counted and the
\* storage source on, all of which it kept
StoppedKeepingSelection ==
    /\ call.op = "stopAll"
    /\ AllStopped(hw)
    /\ ix.current_mode = "TOP_GOAL"
    /\ ix.storage_ball_count = 2
    /\ ix.score_from_top_storage

\* C11: after every operation - a direct call or a pass of the loop, in any
\* order - the direction is not NONE exactly when a sequence is active.
DirectionIffActive ==
    (ix.last_direction # "NONE") <=> ix.scoring_active

\* C11 witness: a pass of the loop left a sequence active with a direction,
\* after a direct call had started one
ActiveWithDirectionAfterTick ==
    /\ call.op = "update"
    /\ ix.scoring_active
    /\ ix.last_direction = "BACK"
    /\ ix.last_buttons = {"R1"}

\* A step that is a pass of the loop with a rising edge of one execute button
\* (R2 front, R1 back) and no other button held
ExecuteEdge ==
    /\ call'.op = "update"
    /\ ix'.last_buttons \in {{"R2"}, {"R1"}}
    /\ ix'.last_buttons \cap ix.last_buttons = {}

\* C12: with no mode selected, an execute - executeFront or executeBack
\* called directly, or an execute button edge of the loop before the running
\* sequence's timeout is due - only gives feedback: its one command, the
\* loop's display prints apart, is a print, no velocity or coupling command
\* is issued, and mode, direction,
\* active, input_active, flap, storage count and the velocity targets are
\* unchanged, also when a sequence is active.
ExecuteWithoutModeRejected ==
    [][(ix.current_mode = "NONE"
        /\ (call'.op \in {"executeFront", "executeBack"} \/ ExecuteEdge)) =>
         /\ Commands(log') =
               <<Entry("print",
                       IF call'.op = "update" THEN "Press Y/A/B/X first"
                       ELSE "Need Mode", 0)>>
         /\ Scoring(ix') = Scoring([ix EXCEPT !.last_buttons = ix'.last_buttons])
         /\ hw'.vel = hw.vel
         /\ hw'.pto = hw.pto
      ]_vars

\* C12 witness: an execute button edge rejected for want of a mode while a
\* sequence, started by a direct startIntakeAndStorage, is active
ExecuteEdgeRejectedWhileActive ==
    /\ call.op = "update"
    /\ ix.current_mode = "NONE"
    /\ ix.scoring_active
    /\ ix.last_buttons = {"R2"}
    /\ Commands(log) = <<Entry("print", "Press Y/A/B/X first", 0)>>

\* C16 as stated: a startIntakeAndStorage that reports "PTO ERROR" because
\* the coupling did not reach the scorer state leaves mode, direction,
\* active, input_active and every velocity target as they were before the
\* call, also when a sequence was active at the call.
PtoErrorLeavesEverything ==
    [][(call'.op = "startIntakeAndStorage"
        /\ Count(log', Entry("print", "PTO ERROR", 0)) > 0) =>
         /\ ix'.current_mode = ix.current_mode
         /\ ix'.last_direction = ix.last_direction
         /\ ix'.scoring_active = ix.scoring_active
         /\ ix'.input_motor_active = ix.input_motor_active
         /\ hw'.vel = hw.vel
      ]_vars

\* C16 witness: a startIntakeAndStorage that reported "PTO ERROR" once, after
\* it had stopped the sequence that was active at the call
PtoErrorAfterStop ==
    /\ call.op = "startIntakeAndStorage"
    /\ Count(log, Entry("print", "PTO ERROR", 0)) = 1
    /\ Count(log, Entry("pto", "SCORER", 0)) = 1
    /\ Count(log, Entry("active", "false", 0)) = 1
    /\ ~ix.scoring_active
    /\ AllStopped(hw)

\* C20 as stated: executeFront leaves the flap open in TOP_GOAL mode and
\* closed in COLLECTION mode; every other execute leaves the flap as it was,
\* also when it interrupts an active sequence.
ExecuteFlapFrame ==
    [][call'.op \in {"executeFront", "executeBack"} =>
         ix'.front_flap_open =
           IF call'.op = "executeFront" /\ ix.current_mode = "TOP_GOAL" THEN TRUE
           ELSE IF call'.op = "executeFront" /\ ix.current_mode = "COLLECTION" THEN FALSE
           ELSE ix.front_flap_open
      ]_vars

\* C20 amended: executeFront leaves the flap open in TOP_GOAL mode and
\* closed in COLLECTION mode; every other execute leaves the flap as it was
\* when no sequence was active at the call or no mode is selected, and
\* leaves it closed when it interrupts an active sequence (the interrupting
\* stopAll closes the flap).
ExecuteFlapFrameWhenIdle ==
    [][call'.op \in {"executeFront", "executeBack"} =>
         ix'.front_flap_open =
           IF call'.op = "executeFront" /\ ix.current_mode = "TOP_GOAL" THEN TRUE
           ELSE IF call'.op = "executeFront" /\ ix.current_mode = "COLLECTION" THEN FALSE
           ELSE IF ix.scoring_active /\ ix.current_mode # "NONE" THEN FALSE
           ELSE ix.front_flap_open
      ]_vars

\* C20 witness: an executeBack in MID_GOAL mode that found the flap open by
\* hand and the controller idle, and left the flap open
BackExecuteKeptFlapOpen ==
    /\ call.op = "executeBack"
    /\ ix.current_mode = "MID_GOAL"
    /\ ix.scoring_active
    /\ ix.front_flap_open
    /\ Count(log, Entry("flap", "closed", 0)) = 0

\* The timeout bucket of the running sequence, first match first
TimeoutBucket ==
    IF ix.current_mode = "LOW_GOAL" THEN 3000
    ELSE IF ix.last_direction = "STORAGE" THEN 8000
    ELSE IF ix.current_mode = "COLLECTION" /\ ix.last_direction \in {"FRONT", "BACK"}
    THEN 3000
    ELSE 5000

\* C17: a pass of the loop with no button edge finds a sequence active:
\* if the time since its start exceeds its bucket - 3000 ms in LOW_GOAL mode,
\* else 8000 ms for direction STORAGE, else 3000 ms in COLLECTION mode with
\* direction FRONT or BACK, else 5000 ms - the pass stops everything
\* (stopAll) and reports the timeout; otherwise it commands nothing but its
\* display prints and leaves the sequence as it is.  So no pass leaves a sequence active beyond
\* its bucket.
TimeoutAtBucket ==
    [][(call'.op = "update" /\ ix.scoring_active) =>
         IF U32Sub(hw'.now, ix.scoring_start_time) > TimeoutBucket
         THEN /\ ~ix'.scoring_active
              /\ ix'.last_direction = "NONE"
              /\ ~ix'.input_motor_active
              /\ AllStopped(hw')
              /\ Count(log', Entry("print", "TIMEOUT STOP", 0))
                   + Count(log', Entry("print", "LOW TIMEOUT", 0)) > 0
         ELSE /\ Scoring(ix') = Scoring(ix)
              /\ hw'.vel = hw.vel
              /\ Commands(log') = <<>>
      ]_vars

\* C17 witness: a pass that timed out a storage sequence, more than 8000 ms
\* and at most one pass more after its start
StorageTimedOutAfter8000 ==
    /\ call.op = "update"
    /\ Count(log, Entry("print", "TIMEOUT STOP", 0)) = 1
    /\ ix.current_mode = "TOP_GOAL"
    /\ ~ix.scoring_active
    /\ U32Sub(hw.now, ix.scoring_start_time) > 8000
    /\ U32Sub(hw.now, ix.scoring_start_time) <= 8000 + TickPeriod

\* The mode a selector button selects, and the direction an execute button
\* executes
SelectorMode(b) ==
    CASE b = "Y" -> "COLLECTION"
      [] b = "A" -> "MID_GOAL"
      [] b = "B" -> "LOW_GOAL"
      [] b = "X" -> "TOP_GOAL"

ExecuteDirection(b) == IF b = "R2" THEN "FRONT" ELSE "BACK"

\* A step that is a pass of the loop with a rising edge of button b and no
\* other button held
EdgeOf(b) ==
    /\ call'.op = "update"
    /\ ix'.last_buttons = {b}
    /\ b \notin ix.last_buttons

\* The velocity targets of the storage sequence
StorageFillTable == [input |-> 550, left |-> -275, right |-> -350, top |-> 60]

\* C18: a pass of the loop with a rising edge of a mode selector: if a
\* sequence is active, the mode is the selector's and the direction is
\* STORAGE, the pass stops everything (stopAll), keeps the mode and starts
\* nothing; in every other state it sets the selector's mode and calls
\* startIntakeAndStorage, which here leaves the storage sequence running.
SelectorTogglesStorage ==
    [][\A b \in {"Y", "A", "B", "X"} : EdgeOf(b) =>
         IF /\ ix.scoring_active
            /\ ix.current_mode = SelectorMode(b)
            /\ ix.last_direction = "STORAGE"
         THEN /\ ~ix'.scoring_active
              /\ ix'.last_direction = "NONE"
              /\ AllStopped(hw')
              /\ ix'.current_mode = ix.current_mode
              /\ Count(log', Entry("active", "true", 0)) = 0
              /\ \A i \in 1..Len(log') : log'[i].k = "vel" => log'[i].v = 0
         ELSE LET e == startIntakeAndStorage(setMode(World, SelectorMode(b)))
              IN  /\ ix'.current_mode = SelectorMode(b)
                  /\ Scoring(ix') = Scoring([e.ix EXCEPT !.last_buttons = {b}])
                  /\ hw' = e.hw
                  /\ Commands(log') =
                        Append(e.log, Entry("print", "MODE STORAGE", 0))
                  /\ ix'.scoring_active
                  /\ ix'.last_direction = "STORAGE"
                  /\ hw'.vel = StorageFillTable
      ]_vars

\* C18 witness: the second press of the MID_GOAL selector stopped the
\* storage sequence and kept the mode
SelectorStoppedStorage ==
    /\ call.op = "update"
    /\ ix.last_buttons = {"A"}
    /\ Count(log, Entry("print", "STOPPED", 0)) = 1
    /\ ix.current_mode = "MID_GOAL"
    /\ ~ix.scoring_active
    /\ AllStopped(hw)

\* C19 as stated: with a sequence active in direction FRONT (BACK), a pass
\* of the loop with a rising edge of the front (back) execute button ends
\* with the storage sequence running: active, direction STORAGE, the storage
\* targets.
SecondExecutePressToStorage ==
    [][\A b \in {"R2", "R1"} :
         (EdgeOf(b) /\ ix.scoring_active
          /\ ix.last_direction = ExecuteDirection(b)) =>
            /\ ix'.scoring_active
            /\ ix'.last_direction = "STORAGE"
            /\ hw'.vel = StorageFillTable
      ]_vars

\* C19 amended: with a sequence active in direction FRONT (BACK), a rising
\* edge of the front (back) execute button in MID_GOAL, LOW_GOAL or TOP_GOAL
\* mode stops the sequence and calls startIntakeAndStorage instead of
\* running the execute again: the pass ends with the storage sequence
\* running, or, when the call is refused - the storage count is 3, or the
\* coupling is in drivetrain state and does not switch - with the controller
\* idle, all targets zero, the mode kept.  In COLLECTION mode the edge runs
\* the push again: the sequence is stopped and the intake alone restarted
\* (550 RPM front, -300 RPM back), active, direction unchanged.
SecondExecutePressStopsThenStores ==
    [][\A b \in {"R2", "R1"} :
         (EdgeOf(b) /\ ix.scoring_active
          /\ ix.last_direction = ExecuteDirection(b)) =>
            IF ix.current_mode = "COLLECTION"
            THEN /\ ix'.scoring_active
                 /\ ix'.last_direction = ExecuteDirection(b)
                 /\ hw'.vel = [input |-> IF b = "R2" THEN 550 ELSE -300,
                               left |-> 0, right |-> 0, top |-> 0]
            ELSE /\ ix'.current_mode = ix.current_mode
                 /\ Count(log', Entry("active", "false", 0)) = 1
                 /\ Count(log', Entry("print", "FRONT", 0)) = 0
                 /\ Count(log', Entry("print", "BACK", 0)) = 0
                 /\ IF \/ ix.storage_ball_count >= MAX_STORAGE_BALLS
                       \/ hw.pto = "DRIVETRAIN" /\ hw.pto_fault
                    THEN /\ ~ix'.scoring_active
                         /\ ix'.last_direction = "NONE"
                         /\ AllStopped(hw')
                    ELSE /\ ix'.scoring_active
                         /\ ix'.last_direction = "STORAGE"
                         /\ hw'.vel = StorageFillTable
      ]_vars

\* C19 witness: the second press of the back execute button in TOP_GOAL mode
\* went back to the storage sequence
SecondPressReturnedToStorage ==
    /\ call.op = "update"
    /\ ix.last_buttons = {"R1"}
    /\ ix.current_mode = "TOP_GOAL"
    /\ ix.scoring_active
    /\ ix.last_direction = "STORAGE"
    /\ hw.vel = StorageFillTable
    /\ Count(log, Entry("active", "false", 0)) = 1

\* The output of one step of SpecGuard, whose log is the output of the run
StepLog == SubSeq(log', Len(log) + 1, Len(log'))

EjectionHoldsController ==
    [][(call'.op = "update" /\ cs.ejection_active
        /\ ix'.last_buttons # {} /\ ix'.last_buttons \cap ix.last_buttons = {}) =>
         /\ hw'.vel = hw.vel
         /\ ix'.current_mode = "MID_GOAL"
         /\ ix'.last_direction = "BACK"
         /\ ix'.scoring_active
      ]_vars

\* C14 witness: with the ejection still active, the edge of the TOP_GOAL
\* selector has replaced the ejection's back sequence by the storage
\* sequence
SelectorOverrodeEjection ==
    /\ call.op = "update"
    /\ cs.ejection_active
    /\ ix.last_buttons = {"X"}
    /\ ix.current_mode = "TOP_GOAL"
    /\ ix.last_direction = "STORAGE"
    /\ hw.vel = StorageFillTable

\* The scoring controller's mode, direction and active flag before the
\* ejection that a pass of the sort controller stops: the snapshot, or the
\* controller itself when the same pass started the ejection
BeforeEjection ==
    IF EjectionsStarted = 1
    THEN [mode |-> ScoringModeInt(ix.current_mode),
          dir |-> ExecutionDirectionInt(ix.last_direction),
          active |-> ix.scoring_active]
    ELSE [mode |-> cs.saved_indexer_state.saved_scoring_mode,
          dir |-> cs.saved_indexer_state.saved_execution_direction,
          active |-> cs.saved_indexer_state.was_scoring_active]

\* C15 as stated: the pass of the sort controller that ends an ejection,
\* with no button held at the scoring controller's pass in between, leaves
\* the scoring controller's mode, direction and active flag at their values
\* before the ejection.
EjectionRestoresController ==
    [][(call'.op = "cs_update" /\ EjectionsStopped = 1 /\ ix.last_buttons = {}) =>
         /\ ScoringModeInt(ix'.current_mode) = BeforeEjection.mode
         /\ ExecutionDirectionInt(ix'.last_direction) = BeforeEjection.dir
         /\ ix'.scoring_active = BeforeEjection.active
      ]_vars

\* C15 witness: an ejection cycle is over, the snapshot consumed; it had
\* found the controller idle with TOP_GOAL selected and left it idle with
\* MID_GOAL selected
EjectionLeftMidGoalSelected ==
    /\ call.op = "cs_update"
    /\ Count(log, Entry("call", "restoreIndexerState", 0)) = 1
    /\ ~cs.saved_indexer_state.valid
    /\ cs.saved_indexer_state.saved_scoring_mode = ScoringModeInt("TOP_GOAL")
    /\ ~cs.saved_indexer_state.was_scoring_active
    /\ ix.last_buttons = {}
    /\ ix.current_mode = "MID_GOAL"
    /\ ~ix.scoring_active

\* C23: in COLLECT_ALL mode a pass of the sort controller starts no
\* ejection whatever the readings and the colors confirmed: the eject
\* condition never holds, the ejected counter keeps its value and no ejection
\* becomes active; only triggerEjection starts one.
CollectAllNeverEjects ==
    [][(call'.op = "cs_update" /\ cs.current_mode = "COLLECT_ALL") =>
         /\ cs'.balls_ejected = cs.balls_ejected
         /\ cs'.ejection_active => cs.ejection_active
         /\ \A i \in 1..Len(log') : log'[i].k # "eject_due"
         /\ Count(log', Entry("call", "saveIndexerState", 0)) = 0
      ]_vars

\* C23 witness: in COLLECT_ALL mode a pass found a confirmed BLUE ball at
\* checkpoint 2 and started nothing
ConfirmedBallKeptInCollectAll ==
    /\ call.op = "cs_update"
    /\ cs.current_mode = "COLLECT_ALL"
    /\ cs.last_detected_color = "BLUE"
    /\ cs.sensor2_triggered
    /\ ~cs.ejection_active
    /\ cs.balls_ejected = 0

\* The clock a pass of SpecSort reads at the top of the sort controller's
\* update
SortPassTime == hw.now

\* Checkpoint 2 is triggered in the pass: it has just been triggered, or it
\* was and the ball has not left
Checkpoint2Triggered ==
    \/ Count(log', Entry("printf", "Ball detected at sensor", 2)) = 1
    \/ cs.sensor2_triggered /\ Count(log', Entry("printf", "Ball left sensor", 2)) = 0

\* C30: a pass of the sort controller starts an ejection only if checkpoint
\* 2 is triggered in that pass, or a ball has triggered it before and less
\* than BALL_EJECT_DELAY_MS passed since; so never before a ball has reached
\* checkpoint 2.
AutoEjectionNeedsCheckpoint2 ==
    [][(call'.op = "cs_update" /\ EjectionsStarted = 1) =>
         \/ Checkpoint2Triggered
         \/ /\ cs.sensor2_trigger_time > 0
            /\ U32Sub(SortPassTime, cs.sensor2_trigger_time) < BALL_EJECT_DELAY_MS
      ]_vars

\* C30 witness: the pass in which the ball reached checkpoint 2 started the
\* ejection of the color confirmed at checkpoint 1
EjectionStartedAtCheckpoint2 ==
    /\ call.op = "cs_update"
    /\ Count(log, Entry("printf", "Ball detected at sensor", 2)) = 1
    /\ Count(log, Entry("eject_due", "RED", 0)) = 1
    /\ Count(log, Entry("printf", "BALL EJECTION STARTING", 0)) = 1
    /\ cs.current_mode = "COLLECT_BLUE"
    /\ cs.balls_ejected = 1

\* A step that is a direct call of executeFront or executeBack with a mode
\* selected, and the direction of the call
ExecuteCalled ==
    /\ call'.op \in {"executeFront", "executeBack"}
    /\ ix.current_mode # "NONE"

ExecuteCalledDirection == IF call'.op = "executeFront" THEN "FRONT" ELSE "BACK"

\* The roller targets the storage testing guide lists for an execute with
\* the storage source on (scenarios 2 to 7 and 9); hasRight says
\* whether the scenario lists a target for the right roller
GuideStorageTable(mode, dir) ==
    CASE mode = "COLLECTION" /\ dir = "FRONT" ->
           [left |-> -550, top |-> 200, right |-> -350, hasRight |-> TRUE, input |-> 550]
      [] mode = "COLLECTION" /\ dir = "BACK" ->
           [left |-> -550, top |-> -200, right |-> -350, hasRight |-> TRUE, input |-> 550]
      [] mode = "LOW_GOAL" /\ dir = "FRONT" ->
           [left |-> -550, top |-> 200, right |-> 0, hasRight |-> FALSE, input |-> -300]
      [] mode = "LOW_GOAL" /\ dir = "BACK" ->
           [left |-> -550, top |-> -200, right |-> 0, hasRight |-> FALSE, input |-> -300]
      [] mode = "MID_GOAL" /\ dir = "FRONT" ->
           [left |-> -550, top |-> 200, right |-> 0, hasRight |-> FALSE, input |-> 550]
      [] mode = "MID_GOAL" /\ dir = "BACK" ->
           [left |-> -550, top |-> -200, right |-> 500, hasRight |-> TRUE, input |-> 550]
      [] mode = "TOP_GOAL" /\ dir = "BACK" ->
           [left |-> -550, top |-> -200, right |-> -550, hasRight |-> TRUE, input |-> 550]

\* C28 as stated: with the storage source on, an execute in any (mode,
\* direction) but (TOP_GOAL, FRONT) leaves the left, top and right rollers
\* and the intake at the targets the storage testing guide lists for it.
StorageExecuteFollowsGuide ==
    [][(/\ ExecuteCalled
        /\ ix.score_from_top_storage
        /\ ~(ix.current_mode = "TOP_GOAL" /\ ExecuteCalledDirection = "FRONT")) =>
         LET g == GuideStorageTable(ix.current_mode, ExecuteCalledDirection)
         IN  /\ hw'.vel.left = g.left
             /\ hw'.vel.top = g.top
             /\ g.hasRight => hw'.vel.right = g.right
             /\ hw'.vel.input = g.input
      ]_vars

\* C28 witness: an executeFront in COLLECTION with the storage source on
\* left the targets of the guide's scenario 2
StorageCollectionFrontAsGuide ==
    /\ call.op = "executeFront"
    /\ ix.current_mode = "COLLECTION"
    /\ ix.score_from_top_storage
    /\ hw.vel = [input |-> 550, left |-> -550, right |-> -350, top |-> 200]

\* C29: an executeFront in TOP_GOAL leaves left, top, right and intake at
\* -350, 400, -350 and 550 RPM with the flap open and the storage count as it
\* was, whatever the storage source flag; every other execute with the storage
\* source on and a positive storage count takes exactly one ball off the
\* count.
FrontTopGoalIgnoresStorage ==
    [][/\ (call'.op = "executeFront" /\ ix.current_mode = "TOP_GOAL") =>
            /\ hw'.vel = [input |-> 550, left |-> -350, right |-> -350, top |-> 400]
            /\ ix'.front_flap_open
            /\ ix'.storage_ball_count = ix.storage_ball_count
       /\ (/\ ExecuteCalled
           /\ ~(call'.op = "executeFront" /\ ix.current_mode = "TOP_GOAL")
           /\ ix.score_from_top_storage
           /\ ix.storage_ball_count > 0) =>
            ix'.storage_ball_count = ix.storage_ball_count - 1
      ]_vars

\* C29 witness: an executeFront in TOP_GOAL with the storage source on and
\* two balls stored left the count at two and the top goal targets
FrontTopGoalKeptCount ==
    /\ call.op = "executeFront"
    /\ ix.current_mode = "TOP_GOAL"
    /\ ix.score_from_top_storage
    /\ ix.storage_ball_count = 2
    /\ hw.vel = [input |-> 550, left |-> -350, right |-> -350, top |-> 400]
    /\ ix.front_flap_open

\* The intake speed of a push in direction dir
PushIntakeSpeed(dir) ==
    IF dir = "FRONT" THEN INPUT_MOTOR_SPEED ELSE INPUT_MOTOR_REVERSE_SPEED

\* C27 as stated: a pass of the loop with a front (back) execute button edge
\* in COLLECTION mode ends with the coupling in drivetrain state, the intake
\* at forward (reverse) speed, left, right and top at zero, active, direction
\* FRONT (BACK) and the start time at the clock, from every prior state.
PushEdgeOutcome ==
    [][\A b \in {"R2", "R1"} :
         (EdgeOf(b) /\ ix.current_mode = "COLLECTION") =>
            /\ hw'.pto = "DRIVETRAIN"
            /\ hw'.vel.input = PushIntakeSpeed(ExecuteDirection(b))
            /\ hw'.vel.left = 0 /\ hw'.vel.right = 0 /\ hw'.vel.top = 0
            /\ ix'.scoring_active
            /\ ix'.last_direction = ExecuteDirection(b)
            /\ ix'.scoring_start_time = hw'.now
      ]_vars

\* C26 as stated: whenever the left or the right roller has a non-zero
\* velocity target, the coupling is in scorer state.
CoupledRollersNeedScorer ==
    (hw.vel.left # 0 \/ hw.vel.right # 0) => hw.pto = "SCORER"

\* C26 witness: a sequence out of COLLECTION runs the left and right rollers
\* with the coupling in scorer state after a push had it in drivetrain state
RollersRunOnScorerAfterPush ==
    /\ call.op = "update"
    /\ ix.scoring_active
    /\ hw.vel.left # 0 /\ hw.vel.right # 0
    /\ hw.pto = "SCORER"
    /\ Count(log, Entry("pto", "SCORER", 0)) = 1

\* C27 witness: a back execute button edge in COLLECTION stopped the running
\* forward push and left the intake alone in reverse on the drivetrain
\* coupling
PushReversedRunningSequence ==
    /\ call.op = "update"
    /\ ix.last_buttons = {"R1"}
    /\ ix.current_mode = "COLLECTION"
    /\ Count(log, Entry("active", "false", 0)) = 1
    /\ hw.vel = [input |-> -300, left |-> 0, right |-> 0, top |-> 0]
    /\ hw.pto = "DRIVETRAIN"
    /\ ix.scoring_active
    /\ ix.last_direction = "BACK"
    /\ ix.scoring_start_time = hw.now

\* C24: the ejection duration is within 300..800 ms in every state, after
\* any requested value and any sequence of +50 ms and -50 ms adjustments.
EjectionDurationInRange ==
    /\ cs.ejection_duration >= BALL_EJECT_MIN_DURATION
    /\ cs.ejection_duration <= BALL_EJECT_MAX_DURATION

\* C24 witness: a request of 5000 ms or 801 ms was replaced by the upper
\* bound while an ejection was running
DurationRequestClampedToMaximum ==
    /\ call.op = "setEjectionDuration"
    /\ cs.ejection_duration = BALL_EJECT_MAX_DURATION
    /\ cs.ejection_active

\* C25: with an optical sensor or the scoring controller missing, a pass of
\* the sort controller's update changes nothing of either controller and
\* commands nothing: only the loop's clock moves.
UpdateWithoutHardwareIsNoOp ==
    [][(call'.op = "cs_update" /\ (~cs.has_sensors \/ ~cs.has_indexer)) =>
         /\ ix' = ix
         /\ cs' = cs
         /\ hw'.vel = hw.vel
         /\ hw'.pto = hw.pto
         /\ log' = <<>>
      ]_vars

\* C25 witness: without its sensors a pass left a manually triggered
\* ejection running past its duration
PassWithoutSensorsLeftEjection ==
    /\ call.op = "cs_update"
    /\ ~cs.has_sensors
    /\ cs.has_indexer
    /\ cs.ejection_active
    /\ U32Sub(hw.now, cs.ejection_start_time) >= cs.ejection_duration
    /\ hw.vel.right = RIGHT_INDEXER_MID_GOAL_SPEED

\* C21 as stated: the two steps of an ejection cycle - the one that starts
\* the ejection and the one that stops it - leave the storage count as it
\* was, for every count and both values of the storage source flag.
EjectionKeepsStorageCount ==
    [][(EjectionsStarted = 1 \/ EjectionsStopped = 1) =>
         ix'.storage_ball_count = ix.storage_ball_count
      ]_vars

\* C21 witness: an ejection cycle with the storage source off ended with
\* the three stored balls still counted
EjectionCycleKeptThreeBalls ==
    /\ call.op = "cs_update"
    /\ Count(log, Entry("printf", "Ball ejection stopped", 0)) = 1
    /\ ~ix.score_from_top_storage
    /\ ix.storage_ball_count = 3
    /\ cs.balls_ejected = 1

\* The code of a color in the confirmation printf
ColorCode(c) == IF c = "RED" THEN 1 ELSE 2

\* A pass of the sort controller that confirms color c for the first time
FirstConfirmed(c) ==
    /\ call'.op = "cs_update"
    /\ Count(log', Entry("printf", "Ball color confirmed", ColorCode(c))) = 1
    /\ cs.last_detected_color # c

\* C22 as stated: the pass that confirms a ball of a color kept under the
\* sorting mode adds one to the storage count, up to 3, with no
\* addBallToStorage command; a pass that starts an ejection does not
\* increase it.
KeptBallCountedAutomatically ==
    [][/\ \A c \in {"RED", "BLUE"} :
            (FirstConfirmed(c) /\ ~EjectTable[cs.current_mode][c]) =>
               ix'.storage_ball_count =
                  IF ix.storage_ball_count < MAX_STORAGE_BALLS
                  THEN ix.storage_ball_count + 1
                  ELSE MAX_STORAGE_BALLS
       /\ EjectionsStarted = 1 =>
            ix'.storage_ball_count <= ix.storage_ball_count
      ]_vars

\* C22 witness: the pass that started the ejection of a RED ball under
\* COLLECT_BLUE left the two stored balls counted
EjectedBallNotCounted ==
    /\ call.op = "cs_update"
    /\ cs.current_mode = "COLLECT_BLUE"
    /\ Count(log, Entry("eject_due", "RED", 0)) = 1
    /\ cs.balls_ejected = 1
    /\ ~ix.score_from_top_storage
    /\ ix.storage_ball_count = 2

\* C39 as stated: after every execute with a mode selected the intake
\* target is -300 in LOW_GOAL and 550 in MID_GOAL and TOP_GOAL, whatever the
\* state before, a directly started intake included.
ExecuteSetsIntakeByMode ==
    [][ExecuteCalled =>
         /\ ix.current_mode = "LOW_GOAL" =>
               hw'.vel.input = INPUT_MOTOR_REVERSE_SPEED
         /\ ix.current_mode \in {"MID_GOAL", "TOP_GOAL"} =>
               hw'.vel.input = INPUT_MOTOR_SPEED
      ]_vars

\* C39 witness: a LOW_GOAL execute over a running sequence stopped it and
\* left the intake in reverse
LowGoalExecuteReversedIntake ==
    /\ call.op = "executeBack"
    /\ ix.current_mode = "LOW_GOAL"
    /\ Count(log, Entry("active", "false", 0)) = 1
    /\ Count(log, Entry("vel", "input", 0)) = 2
    /\ hw.vel.input = INPUT_MOTOR_REVERSE_SPEED
    /\ ix.scoring_active

\* C40: whenever no sequence is active, the intake and the left, right and
\* top rollers have zero targets and the intake is not marked running.
IdleMeansAllStopped ==
    ~ix.scoring_active => (AllStopped(hw) /\ ~ix.input_motor_active)

\* C40 witness: the pass that ended an ejection left the controller idle
\* with every target at zero
IdleAfterEjectionAllStopped ==
    /\ call.op = "cs_update"
    /\ Count(log, Entry("printf", "Ball ejection stopped", 0)) = 1
    /\ ~ix.scoring_active
    /\ AllStopped(hw)
    /\ ~ix.input_motor_active

\* C38 as stated: while a sequence is active with direction FRONT or BACK,
\* a step changes the mode only if it also stops or re-dispatches the
\* actuators, a selector pressed with the storage full included.
ModeChangeRedispatches ==
    [][(/\ ix.scoring_active
        /\ ix.last_direction \in {"FRONT", "BACK"}
        /\ ix'.current_mode # ix.current_mode) =>
         \E i \in 1..Len(log') : log'[i].k \in {"vel", "active"}
      ]_vars

\* C38 witness: the B selector pressed during a push with room in the
\* storage stopped the push and started the LOW_GOAL storage sequence
SelectorRedispatchedPush ==
    /\ call.op = "update"
    /\ ix.last_buttons = {"B"}
    /\ ix.current_mode = "LOW_GOAL"
    /\ Count(log, Entry("active", "false", 0)) = 1
    /\ Count(log, Entry("pto", "SCORER", 0)) = 1
    /\ ix.scoring_active
    /\ ix.last_direction = "STORAGE"
    /\ hw.vel = StorageFillTable

\* The kinds of log entry that are commands to the scoring controller's
\* actuators or its feedback to the driver
CommandKinds == {"vel", "active", "pto", "flap", "print"}

\* C37: the snapshot taken when an ejection starts records an idle scoring
\* controller with direction NONE; the restore at the end of the ejection
\* issues no command, and the scoring controller is idle after the step
\* that ends an ejection.
SnapshotAlwaysIdle ==
    [][/\ EjectionsStarted = 1 =>
            /\ ~cs'.saved_indexer_state.was_scoring_active
            /\ cs'.saved_indexer_state.saved_execution_direction = 0
       /\ EjectionsStopped = 1 =>
            /\ ~ix'.scoring_active
            /\ \A i \in 1..Len(log') :
                 log'[i] = Entry("call", "restoreIndexerState", 0) =>
                    \A j \in (i + 1)..Len(log') : log'[j].k \notin CommandKinds
      ]_vars

\* C37 witness: the pass that ended an ejection started with TOP_GOAL
\* selected restored nothing and left the controller idle
RestoreFoundNothingToResume ==
    /\ call.op = "cs_update"
    /\ Count(log, Entry("printf", "Ball ejection stopped", 0)) = 1
    /\ Count(log, Entry("call", "restoreIndexerState", 0)) = 1
    /\ cs.saved_indexer_state.saved_scoring_mode = 3
    /\ ~cs.saved_indexer_state.was_scoring_active
    /\ ~cs.saved_indexer_state.valid
    /\ ~ix.scoring_active

\* C36: in every state between two steps the snapshot is valid exactly when
\* an ejection is active.
SnapshotValidIffEjecting ==
    cs.saved_indexer_state.valid <=> cs.ejection_active

\* C36 witness: a direct stopEjection ended the running ejection and left
\* the snapshot invalid
StopEjectionInvalidatedSnapshot ==
    /\ call.op = "stopEjection"
    /\ Count(log, Entry("call", "restoreIndexerState", 0)) = 1
    /\ ~cs.saved_indexer_state.valid
    /\ ~cs.ejection_active
    /\ cs.balls_ejected = 1

\* C35 as stated: the first pass of the sort controller at which the time
\* since the ejection's start is at least its duration ends the ejection and
\* stops the scoring controller, however the ejection was started; and the
\* ejected counter goes up by one with every start.
EjectionEndsWhenDue ==
    [][/\ (/\ call'.op = "cs_update"
           /\ cs.ejection_active
           /\ U32Sub(SortPassTime, cs.ejection_start_time) >= cs.ejection_duration) =>
            /\ ~cs'.ejection_active
            /\ Count(log', Entry("active", "false", 0)) >= 1
       /\ Count(log', Entry("printf", "BALL EJECTION STARTING", 0)) = EjectionsStarted
      ]_vars

\* C35 witness: with its hardware present, a pass ended the manually
\* triggered ejection whose duration had elapsed
DueEjectionEnded ==
    /\ call.op = "cs_update"
    /\ cs.has_sensors
    /\ Count(log, Entry("printf", "BALL EJECTION STARTING", 0)) = 0
    /\ Count(log, Entry("printf", "Ball ejection stopped", 0)) = 1
    /\ Count(log, Entry("active", "false", 0)) = 1
    /\ ~cs.ejection_active
    /\ cs.balls_ejected = 1

\* The statistics counter of color c
DetectedCount(c, v) ==
    IF c = "RED" THEN v.red_balls_detected ELSE v.blue_balls_detected

\* C34 as stated: the counter of a color goes up once per ball: a pass in
\* which the ball identified as c at checkpoint 1 in the pass before is still
\* in front of the sensor does not count it again.
BallCountedOnce ==
    [][\A c \in {"RED", "BLUE"} :
         (/\ call'.op = "cs_update"
          /\ cs.sensor1_triggered
          /\ allSame(cs.sensor1_color_buffer, c)
          /\ Count(log', Entry("printf", "Ball left sensor", 1)) = 0) =>
            DetectedCount(c, cs') = DetectedCount(c, cs)
      ]_vars

\* C34 witness: a red ball identified on its third pass had been counted
\* once when it left the sensor on the fourth
RedBallLeftCountedOnce ==
    /\ call.op = "cs_update"
    /\ Count(log, Entry("printf", "Ball left sensor", 1)) = 1
    /\ allSame(cs.sensor1_color_buffer, "RED")
    /\ cs.red_balls_detected = 1
    /\ cs.blue_balls_detected = 0

\* C33 as stated, for the first sample of an episode: the pass in which a
\* ball arrives at checkpoint 1 has one sample of that ball and confirms no
\* color.
ArrivalPassConfirmsNothing ==
    [][(/\ call'.op = "cs_update"
        /\ Count(log', Entry("printf", "Ball detected at sensor", 1)) = 1) =>
         \A c \in {"RED", "BLUE"} :
            Count(log', Entry("printf", "Ball color confirmed", ColorCode(c))) = 0
      ]_vars

\* C33 witness: the first ball was confirmed RED by the third sample of its
\* presence, in a pass after the one in which it arrived
FirstBallConfirmedAtThirdSample ==
    /\ call.op = "cs_update"
    /\ Count(log, Entry("printf", "Ball color confirmed", 1)) = 1
    /\ Count(log, Entry("printf", "Ball detected at sensor", 1)) = 0
    /\ cs.sensor1_buffer_index = 0
    /\ cs.red_balls_detected = 1
    /\ cs.blue_balls_detected = 0

\* The detection state resetDetectionState leaves
DetectionStateReset(v) ==
    /\ ~v.sensor1_triggered /\ ~v.sensor2_triggered
    /\ v.sensor1_trigger_time = 0 /\ v.sensor2_trigger_time = 0
    /\ allSame(v.sensor1_color_buffer, "NO_BALL")
    /\ allSame(v.sensor2_color_buffer, "NO_BALL")
    /\ v.sensor1_buffer_index = 0 /\ v.sensor2_buffer_index = 0
    /\ v.last_detected_color = "UNKNOWN"
    /\ v.last_direction = "UNKNOWN"

\* How many samples the buffer buf holds since it was last cleared
FreshSamples(buf) ==
    Cardinality({i \in 1..COLOR_CONFIRMATION_COUNT : buf[i] # "NO_BALL"})

\* C32: the step that ends an ejection leaves both channels untriggered
\* with trigger times zero, both buffers all NO_BALL with index 0 and the last
\* color and direction UNKNOWN; and a pass of update that finds fewer than two
\* fresh samples in the buffer of checkpoint 1 and no color detected confirms
\* no color and starts no ejection, so that a third fresh unanimous sample is
\* needed.
EjectionEndResetsDetection ==
    [][/\ EjectionsStopped = 1 => DetectionStateReset(cs')
       /\ (/\ call'.op = "cs_update"
           /\ cs.last_detected_color = "UNKNOWN"
           /\ FreshSamples(cs.sensor1_color_buffer) < COLOR_CONFIRMATION_COUNT - 1) =>
            /\ \A c \in {"RED", "BLUE"} :
                 Count(log', Entry("printf", "Ball color confirmed", ColorCode(c))) = 0
            /\ cs'.last_detected_color = "UNKNOWN"
            /\ EjectionsStarted = 0
      ]_vars

\* C32 witness: after an ejection the ball still in front of checkpoint 1
\* gave its first fresh sample and nothing was confirmed
FirstSampleAfterEjection ==
    /\ call.op = "cs_update"
    /\ cs.balls_ejected = 1
    /\ ~cs.ejection_active
    /\ cs.sensor1_triggered
    /\ FreshSamples(cs.sensor1_color_buffer) = 1
    /\ cs.sensor1_buffer_index = 1
    /\ cs.last_detected_color = "UNKNOWN"
    /\ cs.current_mode = "EJECT_ALL"

\* A pass of the loop in which the manual eject button was pressed and the
\* trigger refused because the scoring controller was active
ManualTriggerRefusedInPass ==
    /\ call.op = "pass"
    /\ "LEFT" \in oc.held
    /\ Count(log, Entry("printf", "Ejection delayed", 0)) = 1
    /\ ix.scoring_active
    /\ ~cs.ejection_active

\* C31: a manual trigger refused because the scoring controller was
\* active is retried: the next pass of the loop in which the scoring
\* controller goes idle, with checkpoint 2 triggered, starts the ejection.
RefusedManualTriggerRetried ==
    [][(/\ ManualTriggerRefusedInPass
        /\ call'.op = "pass"
        /\ ~ix'.scoring_active
        /\ cs'.sensor2_triggered) => EjectionsStarted = 1
      ]_vars

\* C31 witness: the manual eject button's trigger was refused while the
\* scoring controller ran its storage sequence, with a ball at checkpoint 2
ManualTriggerRefused ==
    /\ ManualTriggerRefusedInPass
    /\ ix.current_mode = "LOW_GOAL"
    /\ ix.last_direction = "STORAGE"
    /\ cs.current_mode = "COLLECT_ALL"
    /\ cs.balls_ejected = 0
    /\ cs.sensor2_triggered
====
